---- MODULE Spec2Model ----
(***************************************************************************)
(* Payment validation and settlement services of the lottery backend:      *)
(* UsdcService (token asset, 6 decimals), EthService (native asset, 18     *)
(* decimals).  Strings are sequences of one-character strings, JavaScript  *)
(* bigint values are sign/magnitude records over decimal digit sequences,  *)
(* so that no amount is cut to a machine width.                            *)
(***************************************************************************)
EXTENDS Integers, Sequences, FiniteSets, TLC

VARIABLES
    conv,     \* a unit conversion run
    env,      \* process.env
    usdc,     \* the UsdcService instance
    eth,      \* the EthService instance
    ledger,   \* per chain, the mined transaction with the request's hash
    head,     \* the block number the RPC endpoint reports
    req,      \* the arguments validateIncomingTransfer is called with
    calls,    \* the validateIncomingTransfer calls in flight
    token,    \* per chain, the token contract: balances and the transfers broadcast
    jobs,     \* the sweepToPayout, payout and resolveSignerForAddress calls in flight
    purchases, \* the ticket purchase requests being handled
    tickets,  \* the tickets createTicket has stored
    auto      \* the AutoDrawingService instance, its timers and the clock

vars == <<conv, env, usdc, eth, ledger, head, req, calls, token, jobs, purchases, tickets, auto>>

(***************************************************************************)
(* Characters and strings                                                  *)
(***************************************************************************)
Str0 == <<>>

DecChars == <<"0", "1", "2", "3", "4", "5", "6", "7", "8", "9">>

HexLower == <<"a", "b", "c", "d", "e", "f">>

HexUpper == <<"A", "B", "C", "D", "E", "F">>

\* the characters of the model's strings
Alphabet ==
    {DecChars[i] : i \in 1..10} \cup {HexLower[i] : i \in 1..6} \cup {HexUpper[i] : i \in 1..6}
    \cup {"x", "X", ".", "-", ",", " "}

DigitTable == [c \in {DecChars[i] : i \in 1..10} |-> CHOOSE d \in 0..9 : DecChars[d + 1] = c]

HexTable ==
    [c \in {HexLower[i] : i \in 1..6} \cup {HexUpper[i] : i \in 1..6} |->
        9 + (CHOOSE k \in 1..6 : HexLower[k] = c \/ HexUpper[k] = c)]

\* String.prototype.toLowerCase, character by character
LowerTable ==
    [c \in Alphabet |->
        IF \E k \in 1..6 : HexUpper[k] = c
        THEN HexLower[CHOOSE k \in 1..6 : HexUpper[k] = c]
        ELSE IF c = "X" THEN "x" ELSE c]

IsDigit(c) == c \in DOMAIN DigitTable

DigitVal(c) == DigitTable[c]

DigitChar(d) == DecChars[d + 1]

IsHexDigit(c) == IsDigit(c) \/ c \in DOMAIN HexTable

HexVal(c) == IF IsDigit(c) THEN DigitVal(c) ELSE HexTable[c]

LowerChar(c) == LowerTable[c]

ToLower(s) == [i \in 1..Len(s) |-> LowerChar(s[i])]

Repeat(c, n) == [i \in 1..n |-> c]

\* String.prototype.slice(a, b) with 0 <= a <= b, zero-based, end exclusive
Slice(s, a, b) ==
    LET hi == IF b < Len(s) THEN b ELSE Len(s)
    IN  IF a >= hi THEN Str0 ELSE SubSeq(s, a + 1, hi)

\* String.prototype.slice(a) with a >= 0
SliceFrom(s, a) == Slice(s, a, Len(s))

StartsWith(s, p) == Len(s) >= Len(p) /\ SubSeq(s, 1, Len(p)) = p

PadEnd(s, n, c) == IF Len(s) >= n THEN s ELSE s \o Repeat(c, n - Len(s))

\* PadStart with the padding put at the end
PadStartAtEnd(s, n, c) == IF Len(s) >= n THEN s ELSE s \o Repeat(c, n - Len(s))

PadStart(s, n, c) == IF Len(s) >= n THEN s ELSE Repeat(c, n - Len(s)) \o s

\* String.prototype.split(sep) for a one-character separator: the pieces
\* between the separators, at(k) being the position of the k-th of them
Split(s, sep) ==
    LET seps == {i \in 1..Len(s) : s[i] = sep}
        at(k) == IF k = 0 THEN 0
                 ELSE IF k > Cardinality(seps) THEN Len(s) + 1
                 ELSE CHOOSE i \in seps : Cardinality({j \in seps : j < i}) = k - 1
    IN  [k \in 1..(Cardinality(seps) + 1) |-> SubSeq(s, at(k - 1) + 1, at(k) - 1)]

(***************************************************************************)
(* bigint: [neg, mag], mag a digit sequence without leading zeros, most    *)
(* significant digit first; zero is [neg |-> FALSE, mag |-> <<0>>]         *)
(***************************************************************************)
\* a magnitude without its leading zeros
StripZeros(m) ==
    IF \A i \in 1..Len(m) : m[i] = 0 THEN <<0>>
    ELSE LET k == CHOOSE i \in 1..Len(m) : m[i] # 0 /\ \A j \in 1..(i - 1) : m[j] = 0
         IN  SubSeq(m, k, Len(m))

MkBig(neg, mag) ==
    LET m == StripZeros(mag)
    IN  [neg |-> neg /\ m # <<0>>, mag |-> m]

BigZero == MkBig(FALSE, <<0>>)

\* the digit of weight 10^i
DigitAt(m, i) == IF i < Len(m) THEN m[Len(m) - i] ELSE 0

MaxLen(a, b) == IF Len(a) < Len(b) THEN Len(b) ELSE Len(a)

\* a + b: a column takes a carry when a column below it overflows and all
\* the columns between pass the carry on
MagAdd(a, b) ==
    LET n == MaxLen(a, b)
        sum == [i \in 0..n |-> DigitAt(a, i) + DigitAt(b, i)]
        carry(i) ==
            \E j \in 0..(i - 1) : sum[j] >= 10 /\ \A l \in (j + 1)..(i - 1) : sum[l] = 9
    IN  StripZeros([p \in 1..(n + 1) |->
            (sum[n + 1 - p] + (IF carry(n + 1 - p) THEN 1 ELSE 0)) % 10])

\* a < b for normalised magnitudes
MagLess(a, b) ==
    IF Len(a) # Len(b) THEN Len(a) < Len(b)
    ELSE \E i \in 1..Len(a) : a[i] < b[i] /\ \A j \in 1..(i - 1) : a[j] = b[j]

\* a - b for magnitudes with a >= b, the borrows found as the carries are
MagSub(a, b) ==
    LET n == Len(a)
        diff == [i \in 0..n |-> DigitAt(a, i) - DigitAt(b, i)]
        borrow(i) ==
            \E j \in 0..(i - 1) : diff[j] < 0 /\ \A l \in (j + 1)..(i - 1) : diff[l] = 0
    IN  StripZeros([p \in 1..n |->
            (diff[n - p] - (IF borrow(n - p) THEN 1 ELSE 0)) % 10])

\* a * k for k in 0..10: the units and the tens of the digit products
MagMulSmall(a, k) ==
    MagAdd(StripZeros([p \in 1..Len(a) |-> (a[p] * k) % 10]),
           StripZeros([p \in 1..Len(a) |-> (a[p] * k) \div 10] \o <<0>>))

\* the sum of the digit products of weight 10^i
ColumnSum(a, b, i) ==
    Cardinality(UNION {{<<j, t>> : t \in 1..(DigitAt(a, j) * DigitAt(b, i - j))} : j \in 0..i})

\* a * b: the column sums, added up decimal place by decimal place
MagMul(a, b) ==
    LET n == Len(a) + Len(b)
        cols == [i \in 0..(n - 1) |-> ColumnSum(a, b, i)]
        place(t) == StripZeros([p \in 1..n |-> (cols[n - p] \div t) % 10])
    IN  MagAdd(MagAdd(place(1), place(10) \o <<0>>),
               MagAdd(place(100) \o <<0, 0>>, place(1000) \o <<0, 0, 0>>))

\* one step of the long division by b: prev is <<quotient, remainder>> so
\* far, d the next digit of the dividend
DivStep(prev, d, b) ==
    LET r == StripZeros(prev[2] \o <<d>>)
        q == CHOOSE x \in 0..9 :
                /\ ~MagLess(r, MagMulSmall(b, x))
                /\ MagLess(r, MagMulSmall(b, x + 1))
    IN  <<StripZeros(prev[1] \o <<q>>), MagSub(r, MagMulSmall(b, q))>>

\* the long division of the digits lo..hi of a by b # 0, prev being
\* <<quotient, remainder>> of the digits before lo; the digits are taken
\* half by half, the left half first
RECURSIVE MagDivModRec(_, _, _, _, _)
MagDivModRec(prev, a, b, lo, hi) ==
    IF lo = hi THEN DivStep(prev, a[lo], b)
    ELSE LET mid == (lo + hi) \div 2
             left == MagDivModRec(prev, a, b, lo, mid)
         IN  IF Len(left[1]) > 0 THEN MagDivModRec(left, a, b, mid + 1, hi) ELSE left

\* <<quotient, remainder>> of a by b # 0 (long division)
MagDivMod(a, b) == MagDivModRec(<<<<0>>, <<0>>>>, a, b, 1, Len(a))

\* bigint + bigint
BigAdd(x, y) ==
    IF x.neg = y.neg THEN MkBig(x.neg, MagAdd(x.mag, y.mag))
    ELSE IF MagLess(x.mag, y.mag) THEN MkBig(y.neg, MagSub(y.mag, x.mag))
    ELSE MkBig(x.neg, MagSub(x.mag, y.mag))

\* bigint * bigint
BigMul(x, y) == MkBig(x.neg # y.neg, MagMul(x.mag, y.mag))

\* bigint / bigint, truncating toward zero
BigDiv(x, y) == MkBig(x.neg # y.neg, MagDivMod(x.mag, y.mag)[1])

\* bigint % bigint, the sign of the dividend
BigRem(x, y) == MkBig(x.neg, MagDivMod(x.mag, y.mag)[2])

\* 10n ** pn
BigPow10(p) == MkBig(FALSE, <<1>> \o [i \in 1..p |-> 0])

\* bigint.toString()
BigToString(x) ==
    (IF x.neg THEN <<"-">> ELSE Str0) \o [i \in 1..Len(x.mag) |-> DigitChar(x.mag[i])]

\* what BigInt(string) throws on a string that is no integer literal
SyntaxError == [error |-> "SyntaxError"]

AllDigits(s) == \A i \in 1..Len(s) : IsDigit(s[i])

AllHex(s) == \A i \in 1..Len(s) : IsHexDigit(s[i])

\* a string of digits without its leading zeros, one digit kept
SkipZeroChars(s) ==
    IF s = Str0 THEN s
    ELSE IF \A i \in 1..Len(s) : s[i] = "0" THEN <<"0">>
    ELSE LET k == CHOOSE i \in 1..Len(s) : s[i] # "0" /\ \A j \in 1..(i - 1) : s[j] = "0"
         IN  SubSeq(s, k, Len(s))

\* the magnitude of a string of hexadecimal digits
RECURSIVE HexMag(_)
HexMag(s) ==
    IF s = Str0 THEN <<0>>
    ELSE LET high == HexMag(SubSeq(s, 1, Len(s) - 1))
             d == HexVal(s[Len(s)])
         IN  IF high = <<0>> THEN StripZeros(<<d \div 10, d % 10>>)
             ELSE MagAdd(MagMul(high, <<1, 6>>), StripZeros(<<d \div 10, d % 10>>))

\* BigInt(string): a bigint, or SyntaxError when the string is no integer literal
ParseBigInt(s) ==
    IF s = Str0 THEN BigZero
    ELSE IF AllDigits(s) THEN MkBig(FALSE, [i \in 1..Len(s) |-> DigitVal(s[i])])
    ELSE IF s[1] = "-" /\ Len(s) > 1 /\ AllDigits(Tail(s))
         THEN MkBig(TRUE, [i \in 1..(Len(s) - 1) |-> DigitVal(s[i + 1])])
    ELSE IF Len(s) > 2 /\ s[1] = "0" /\ s[2] \in {"x", "X"} /\ AllHex(SubSeq(s, 3, Len(s)))
         THEN MkBig(FALSE, HexMag(SkipZeroChars(SubSeq(s, 3, Len(s)))))
    ELSE SyntaxError

(***************************************************************************)
(* Unit conversion                                                         *)
(***************************************************************************)
UsdcDecimals == 6

EthDecimals == 18

\* ToMinorUnits without the truncation of the fractional part
ToMinorUnitsNoSlice(n, p) ==
    LET parts == Split(n, ".")
        intPart == parts[1]
        fracPartRaw == IF Len(parts) >= 2 THEN parts[2] ELSE Str0
        frac == PadEnd(fracPartRaw, p, "0")
        hi == ParseBigInt(IF intPart = Str0 THEN <<"0">> ELSE intPart)
        lo == ParseBigInt(IF frac = Str0 THEN <<"0">> ELSE frac)
    IN  IF hi = SyntaxError \/ lo = SyntaxError THEN SyntaxError
        ELSE BigAdd(BigMul(hi, BigPow10(p)), lo)

\* the shared body of toUnit6 and toWei: n is the decimal string
ToMinorUnits(n, p) ==
    LET parts == Split(n, ".")
        intPart == parts[1]
        fracPartRaw == IF Len(parts) >= 2 THEN parts[2] ELSE Str0
        frac == Slice(PadEnd(fracPartRaw, p, "0"), 0, p)
        hi == ParseBigInt(IF intPart = Str0 THEN <<"0">> ELSE intPart)
        lo == ParseBigInt(IF frac = Str0 THEN <<"0">> ELSE frac)
    IN  IF hi = SyntaxError \/ lo = SyntaxError THEN SyntaxError
        ELSE BigAdd(BigMul(hi, BigPow10(p)), lo)

\* FromMinorUnits without the left padding of the fractional part
FromMinorUnitsNoPad(amount, p) ==
    LET intPart == BigDiv(amount, BigPow10(p))
        frac == BigRem(amount, BigPow10(p))
    IN  BigToString(intPart) \o <<".">> \o BigToString(frac)

\* the shared body of fromUnit6 and fromWei
FromMinorUnits(amount, p) ==
    LET intPart == BigDiv(amount, BigPow10(p))
        frac == BigRem(amount, BigPow10(p))
    IN  BigToString(intPart) \o <<".">> \o PadStart(BigToString(frac), p, "0")

toUnit6(amountUsdc) == ToMinorUnits(amountUsdc, UsdcDecimals)

fromUnit6(amount6) == FromMinorUnits(amount6, UsdcDecimals)

toWei(amountEth) == ToMinorUnits(amountEth, EthDecimals)

fromWei(amountWei) == FromMinorUnits(amountWei, EthDecimals)

(***************************************************************************)
(* Values of the chain client                                              *)
(***************************************************************************)
MaxLogs == 2

MaxHead == 2

TxBlockNumber == 1

Chains == {"op-sepolia", "op-mainnet"}

\* null and undefined, where a string is expected
Null == <<"null">>

\* null and undefined, where an object is expected
NullObj == [null |-> TRUE]

Truthy(v) == v # Null /\ v # Str0

OrEmpty(v) == IF Truthy(v) THEN v ELSE Str0

\* a checksummed (mixed-case) address made of the k-th hex letter
MixedAddr(k) ==
    <<"0", "x">> \o [i \in 1..40 |-> IF i % 2 = 1 THEN HexUpper[k] ELSE HexLower[k]]

SenderAddr == MixedAddr(1)

OtherAddr == MixedAddr(2)

TokenAddr == MixedAddr(3)

DepositAddr == MixedAddr(4)

PayoutAddr == MixedAddr(5)

NatBig(digits) == MkBig(FALSE, digits)

AmountA == NatBig(<<1, 0, 0, 0, 0, 0, 0>>)

\* AmountA + 1
AmountB == NatBig(<<1, 0, 0, 0, 0, 0, 1>>)

TxHash == "0xh1"

\* the URL of an RPC endpoint
RpcUrl == <<"x", ".", "x">>

(***************************************************************************)
(* Service construction                                                    *)
(***************************************************************************)
\* the config record with the wallet addresses as the environment has them
UsdcConfigOfAsGiven(e) ==
    [c \in Chains |->
        [chainIdHex |-> IF c = "op-sepolia" THEN "0xaa37dc" ELSE "0xa",
         rpcUrl |-> IF c = "op-sepolia" THEN OrEmpty(e.OP_RPC_URL)
                    ELSE OrEmpty(e.OP_MAINNET_RPC_URL),
         tokenAddress |-> IF c = "op-sepolia"
                          THEN OrEmpty(e.USDC_TOKEN_ADDRESS_OP_SEPOLIA)
                          ELSE OrEmpty(e.USDC_TOKEN_ADDRESS_OP_MAINNET),
         depositWallet |-> ToLower(OrEmpty(e.DEPOSIT_WALLET_ADDRESS)),
         splitWallet |-> OrEmpty(e.SPLIT_WALLET_ADDRESS),
         payoutWallet |-> ToLower(OrEmpty(e.PAYOUT_WALLET_ADDRESS)),
         decimals |-> UsdcDecimals]]

\* UsdcService.constructor: the config record per chain
UsdcConfigOf(e) ==
    [c \in Chains |->
        [chainIdHex |-> IF c = "op-sepolia" THEN "0xaa37dc" ELSE "0xa",
         rpcUrl |-> IF c = "op-sepolia" THEN OrEmpty(e.OP_RPC_URL)
                    ELSE OrEmpty(e.OP_MAINNET_RPC_URL),
         tokenAddress |-> IF c = "op-sepolia"
                          THEN OrEmpty(e.USDC_TOKEN_ADDRESS_OP_SEPOLIA)
                          ELSE OrEmpty(e.USDC_TOKEN_ADDRESS_OP_MAINNET),
         depositWallet |-> ToLower(OrEmpty(e.DEPOSIT_WALLET_ADDRESS)),
         splitWallet |-> ToLower(OrEmpty(e.SPLIT_WALLET_ADDRESS)),
         payoutWallet |-> ToLower(OrEmpty(e.PAYOUT_WALLET_ADDRESS)),
         decimals |-> UsdcDecimals]]

\* EthService.constructor: the config record per chain
EthConfigOf(e) ==
    [c \in Chains |->
        [chainIdHex |-> IF c = "op-sepolia" THEN "0xaa37dc" ELSE "0xa",
         rpcUrl |-> IF c = "op-sepolia" THEN OrEmpty(e.OP_RPC_URL)
                    ELSE OrEmpty(e.OP_MAINNET_RPC_URL),
         depositWallet |-> ToLower(OrEmpty(e.DEPOSIT_WALLET_ADDRESS)),
         payoutWallet |-> ToLower(OrEmpty(e.PAYOUT_WALLET_ADDRESS)),
         decimals |-> EthDecimals]]

\* the services as constructed: the maps are empty; created counts the
\* JsonRpcProvider objects made per chain
NewUsdcService(e) ==
    [config |-> UsdcConfigOf(e), mnemonic |-> OrEmpty(e.USDC_MNEMONIC),
     providers |-> {}, usdcContracts |-> {}, created |-> [c \in Chains |-> 0]]

NewEthService(e) ==
    [config |-> EthConfigOf(e), providers |-> {}, created |-> [c \in Chains |-> 0]]

\* getProvider making a new provider at every call
WithProviderUncached(svc, chain) ==
    [svc EXCEPT !.providers = @ \cup {chain}, !.created[chain] = @ + 1]

\* getProvider: the service after the call; a provider is made and stored
\* only when the map has none for the chain
WithProvider(svc, chain) ==
    IF chain \in svc.providers THEN svc
    ELSE [svc EXCEPT !.providers = @ \cup {chain}, !.created[chain] = @ + 1]

\* getUsdcContract: the service after the call
WithUsdcContract(svc, chain) ==
    IF chain \in svc.usdcContracts THEN svc
    ELSE [WithProvider(svc, chain) EXCEPT !.usdcContracts = @ \cup {chain}]

(***************************************************************************)
(* validateIncomingTransfer                                                *)
(***************************************************************************)
\* a call that has returned its result object, or thrown
Returned(call, result) == [call EXCEPT !.pc = "returned", !.result = result]

Thrown(call, error) == [call EXCEPT !.pc = "thrown", !.result = error]

TrimStart(s) ==
    IF \A i \in 1..Len(s) : s[i] = " " THEN Str0
    ELSE SubSeq(s, CHOOSE i \in 1..Len(s) : s[i] # " " /\ \A j \in 1..(i - 1) : s[j] = " ",
                Len(s))

TrimEnd(s) ==
    IF \A i \in 1..Len(s) : s[i] = " " THEN Str0
    ELSE SubSeq(s, 1,
                CHOOSE i \in 1..Len(s) : s[i] # " " /\ \A j \in (i + 1)..Len(s) : s[j] = " ")

\* String.prototype.trim
Trim(s) == TrimEnd(TrimStart(s))

\* isBlockedAddress comparing the entries of the list as written, blanks kept
isBlockedAddressNoTrim(e, address) ==
    LET a == ToLower(OrEmpty(address))
        parts == Split(OrEmpty(e.BLOCKED_ETH_ADDRESSES), ",")
        fromEnv == {ToLower(parts[i]) : i \in 1..Len(parts)} \ {Str0}
    IN  a \in fromEnv

\* EthService.isBlockedAddress
isBlockedAddress(e, address) ==
    LET a == ToLower(OrEmpty(address))
        parts == Split(OrEmpty(e.BLOCKED_ETH_ADDRESSES), ",")
        fromEnv == {ToLower(Trim(parts[i])) : i \in 1..Len(parts)} \ {Str0}
    IN  a \in fromEnv

\* iface.parseLog and the body of the try block: the transfer a log stands
\* for, or NullObj when the log is skipped
LogTransfer(log) ==
    IF log.decoded = "throws" \/ log.decoded = "null" THEN NullObj
    ELSE [from |-> ToLower(log.args[1]),
          to |-> ToLower(log.args[2]),
          value |-> ParseBigInt(BigToString(log.args[3]))]

\* the loop over receipt.logs comparing the sender as the caller wrote it
RECURSIVE MatchLogsCaseSensitive(_, _, _, _)
MatchLogsCaseSensitive(logs, i, cfg, expectedSender) ==
    IF i > Len(logs) THEN NullObj
    ELSE IF ~Truthy(logs[i].address)
            \/ ToLower(logs[i].address) # ToLower(cfg.tokenAddress)
         THEN MatchLogsCaseSensitive(logs, i + 1, cfg, expectedSender)
    ELSE LET t == LogTransfer(logs[i])
         IN  IF t # NullObj /\ t.to = cfg.depositWallet /\ t.from = expectedSender
             THEN t
             ELSE MatchLogsCaseSensitive(logs, i + 1, cfg, expectedSender)

\* the loop over receipt.logs taking the logs of any contract
RECURSIVE MatchLogsAnyContract(_, _, _, _)
MatchLogsAnyContract(logs, i, cfg, expectedSender) ==
    IF i > Len(logs) THEN NullObj
    ELSE LET t == LogTransfer(logs[i])
         IN  IF t # NullObj /\ t.to = cfg.depositWallet /\ t.from = ToLower(expectedSender)
             THEN t
             ELSE MatchLogsAnyContract(logs, i + 1, cfg, expectedSender)

\* the loop over receipt.logs, from index i on: the first matching transfer
RECURSIVE MatchLogs(_, _, _, _)
MatchLogs(logs, i, cfg, expectedSender) ==
    IF i > Len(logs) THEN NullObj
    ELSE IF ~Truthy(logs[i].address)
            \/ ToLower(logs[i].address) # ToLower(cfg.tokenAddress)
         THEN MatchLogs(logs, i + 1, cfg, expectedSender)
    ELSE LET t == LogTransfer(logs[i])
         IN  IF t # NullObj /\ t.to = cfg.depositWallet /\ t.from = ToLower(expectedSender)
             THEN t
             ELSE MatchLogs(logs, i + 1, cfg, expectedSender)

TransferSelector == <<"0", "x", "a", "9", "0", "5", "9", "c", "b", "b">>

\* the fallback on the transaction input whatever contract was called
DecodeInputAnyContract(tx, cfg, expectedSender) ==
    IF tx # NullObj /\ Truthy(tx.to) /\ StartsWith(tx.data, TransferSelector)
    THEN LET toEncoded == Slice(tx.data, 10, 74)
             valEncoded == Slice(tx.data, 74, 138)
             toAddr == <<"0", "x">> \o SliceFrom(toEncoded, 24)
             val == ParseBigInt(<<"0", "x">> \o valEncoded)
             senderLower == ToLower(OrEmpty(tx.from))
         IN  IF val = SyntaxError THEN SyntaxError
             ELSE IF senderLower = ToLower(expectedSender)
                     /\ ToLower(toAddr) = ToLower(cfg.depositWallet)
                  THEN [from |-> senderLower, to |-> ToLower(cfg.depositWallet), value |-> val]
                  ELSE NullObj
    ELSE NullObj

\* the fallback on the transaction input: a matched transfer, NullObj, or the
\* SyntaxError BigInt throws
DecodeInput(tx, cfg, expectedSender) ==
    IF tx # NullObj /\ Truthy(tx.to) /\ ToLower(tx.to) = ToLower(cfg.tokenAddress)
       /\ StartsWith(tx.data, TransferSelector)
    THEN LET toEncoded == Slice(tx.data, 10, 74)
             valEncoded == Slice(tx.data, 74, 138)
             toAddr == <<"0", "x">> \o SliceFrom(toEncoded, 24)
             val == ParseBigInt(<<"0", "x">> \o valEncoded)
             senderLower == ToLower(OrEmpty(tx.from))
         IN  IF val = SyntaxError THEN SyntaxError
             ELSE IF senderLower = ToLower(expectedSender)
                     /\ ToLower(toAddr) = ToLower(cfg.depositWallet)
                  THEN [from |-> senderLower, to |-> ToLower(cfg.depositWallet), value |-> val]
                  ELSE NullObj
    ELSE NullObj

\* what getBlockNumber may answer: the answers never go back, blocks are
\* mined between two of them, and an answer may be behind the block of a
\* receipt already served (the case the code's check confs < 1 is for)
ReportedHeads == head..MaxHead

\* what waitForTransaction(txHash, 1, 60_000) rejects with when the timeout
\* elapses before the transaction has a confirmation
TimeoutError == [error |-> "TIMEOUT"]

\* the wait for a transaction that is not mined ends with the timeout: the
\* promise rejects, or resolves to null as the check !receipt expects
WaitOutcomes(call) ==
    {Thrown(call, TimeoutError),
     Returned(call, [ok |-> FALSE, reason |-> "Transaction not found"])}

\* the revert check left out
IsRevertedSkipped(receipt) == FALSE

\* receipt.status !== 1
IsReverted(receipt) == receipt.status # 1

\* confs never below one
ConfirmationsAtLeastOne(current, receipt) ==
    IF current - receipt.blockNumber + 1 < 1 THEN 1 ELSE current - receipt.blockNumber + 1

\* confs without the block of the transaction itself
ConfirmationsOffByOne(current, receipt) == current - receipt.blockNumber

\* confs: the head minus the receipt's block number plus one (a mined receipt
\* carries its block number)
Confirmations(current, receipt) == current - receipt.blockNumber + 1

\* the code after the fallback without the comparison of the amounts
UsdcAfterMatchNoAmount(call, matched) ==
    IF matched = NullObj
    THEN Returned(call, [ok |-> FALSE,
                         reason |-> "No matching USDC transfer to deposit wallet found",
                         txHash |-> req.txHash])
    ELSE [call EXCEPT !.pc = "getBlockNumber", !.matched = matched]

\* the code after the fallback, shared with the path on which a log matched:
\* the no-match and amount checks up to the await of getBlockNumber
UsdcAfterMatch(call, matched) ==
    IF matched = NullObj
    THEN Returned(call, [ok |-> FALSE,
                         reason |-> "No matching USDC transfer to deposit wallet found",
                         txHash |-> req.txHash])
    ELSE IF matched.value # req.expectedAmount
    THEN Returned([call EXCEPT !.matched = matched],
                  [ok |-> FALSE, reason |-> "Amount mismatch", txHash |-> req.txHash])
    ELSE [call EXCEPT !.pc = "getBlockNumber", !.matched = matched]

\* UsdcStart with the provider made before the token address is looked at
UsdcStartProviderFirst(k) ==
    /\ req.service = "usdc"
    /\ calls[k].pc = "idle"
    /\ LET cfg == usdc.config[req.chain]
       IN  /\ calls' = [calls EXCEPT ![k] =
                  IF ~Truthy(cfg.tokenAddress)
                  THEN Returned(@, [ok |-> FALSE, reason |-> "Token address not configured"])
                  ELSE [@ EXCEPT !.pc = "waitForTransaction"]]
           /\ usdc' = WithProvider(usdc, req.chain)
    /\ UNCHANGED <<conv, env, eth, ledger, head, req, token, jobs, purchases, tickets, auto>>

\* UsdcService.validateIncomingTransfer up to the await of waitForTransaction
UsdcStart(k) ==
    /\ req.service = "usdc"
    /\ calls[k].pc = "idle"
    /\ LET cfg == usdc.config[req.chain]
       IN  IF ~Truthy(cfg.tokenAddress)
           THEN /\ calls' = [calls EXCEPT ![k] =
                       Returned(@, [ok |-> FALSE, reason |-> "Token address not configured"])]
                /\ usdc' = usdc
           ELSE /\ calls' = [calls EXCEPT ![k].pc = "waitForTransaction"]
                /\ usdc' = WithProvider(usdc, req.chain)
    /\ UNCHANGED <<conv, env, eth, ledger, head, req, token, jobs, purchases, tickets, auto>>

\* UsdcReceipt fetching the transaction whether or not a log matched
UsdcReceiptAlwaysFetch(k) ==
    /\ req.service = "usdc"
    /\ calls[k].pc = "waitForTransaction"
    /\ LET receipt == ledger[req.chain]
       IN  IF receipt = NullObj
           THEN /\ \E outcome \in WaitOutcomes(calls[k]) :
                      calls' = [calls EXCEPT ![k] = outcome]
                /\ usdc' = usdc
           ELSE IF IsReverted(receipt)
           THEN /\ calls' = [calls EXCEPT ![k] =
                       Returned(@, [ok |-> FALSE, reason |-> "Transaction reverted",
                                    txHash |-> req.txHash])]
                /\ usdc' = usdc
           ELSE /\ usdc' = WithUsdcContract(usdc, req.chain)
                /\ calls' = [calls EXCEPT ![k].pc = "getTransaction"]
    /\ UNCHANGED <<conv, env, eth, ledger, head, req, token, jobs, purchases, tickets, auto>>

\* from the receipt to the next await: revert check and the scan of the logs
UsdcReceipt(k) ==
    /\ req.service = "usdc"
    /\ calls[k].pc = "waitForTransaction"
    /\ LET cfg == usdc.config[req.chain]
           receipt == ledger[req.chain]
       IN  IF receipt = NullObj
           THEN /\ \E outcome \in WaitOutcomes(calls[k]) :
                      calls' = [calls EXCEPT ![k] = outcome]
                /\ usdc' = usdc
           ELSE IF IsReverted(receipt)
           THEN /\ calls' = [calls EXCEPT ![k] =
                       Returned(@, [ok |-> FALSE, reason |-> "Transaction reverted",
                                    txHash |-> req.txHash])]
                /\ usdc' = usdc
           ELSE LET matched == MatchLogs(receipt.logs, 1, cfg, req.expectedSender)
                IN  /\ usdc' = WithUsdcContract(usdc, req.chain)
                    /\ calls' = [calls EXCEPT ![k] =
                           IF matched = NullObj
                           THEN [@ EXCEPT !.pc = "getTransaction"]
                           ELSE UsdcAfterMatch(@, matched)]
    /\ UNCHANGED <<conv, env, eth, ledger, head, req, token, jobs, purchases, tickets, auto>>

\* from the transaction to the next await: the fallback on the input data
UsdcTransaction(k) ==
    /\ req.service = "usdc"
    /\ calls[k].pc = "getTransaction"
    /\ LET cfg == usdc.config[req.chain]
           matched == DecodeInput(ledger[req.chain], cfg, req.expectedSender)
       IN  calls' = [calls EXCEPT ![k] =
               IF matched = SyntaxError THEN Thrown(@, SyntaxError)
               ELSE UsdcAfterMatch(@, matched)]
    /\ UNCHANGED <<conv, env, usdc, eth, ledger, head, req, token, jobs, purchases, tickets, auto>>

\* from the block number to the return: the confirmation check
UsdcBlockNumber(k) ==
    /\ req.service = "usdc"
    /\ calls[k].pc = "getBlockNumber"
    /\ LET receipt == ledger[req.chain]
           matched == calls[k].matched
       IN  \E current \in ReportedHeads :
             LET confs == Confirmations(current, receipt)
             IN  /\ head' = current
                 /\ calls' = [calls EXCEPT ![k] =
                       IF confs < 1
                       THEN Returned([@ EXCEPT !.current = current],
                                     [ok |-> FALSE, reason |-> "Not enough confirmations",
                                      txHash |-> req.txHash, confirmations |-> confs])
                       ELSE Returned([@ EXCEPT !.current = current],
                                     [ok |-> TRUE, txHash |-> req.txHash,
                                      confirmations |-> confs,
                                      amount6 |-> matched.value, sender |-> matched.from,
                                      to |-> matched.to])]
    /\ UNCHANGED <<conv, env, usdc, eth, ledger, req, token, jobs, purchases, tickets, auto>>

\* EthService.validateIncomingTransfer up to the await of waitForTransaction
EthStart(k) ==
    /\ req.service = "eth"
    /\ calls[k].pc = "idle"
    /\ calls' = [calls EXCEPT ![k].pc = "waitForTransaction"]
    /\ eth' = WithProvider(eth, req.chain)
    /\ UNCHANGED <<conv, env, usdc, ledger, head, req, token, jobs, purchases, tickets, auto>>

\* from the receipt to the await of getTransaction
EthReceipt(k) ==
    /\ req.service = "eth"
    /\ calls[k].pc = "waitForTransaction"
    /\ LET receipt == ledger[req.chain]
       IN  IF receipt = NullObj
           THEN \E outcome \in WaitOutcomes(calls[k]) :
                   calls' = [calls EXCEPT ![k] = outcome]
           ELSE calls' = [calls EXCEPT ![k] =
                   IF IsReverted(receipt)
                   THEN Returned(@, [ok |-> FALSE, reason |-> "Transaction reverted",
                                     txHash |-> req.txHash])
                   ELSE [@ EXCEPT !.pc = "getTransaction"]]
    /\ UNCHANGED <<conv, env, usdc, eth, ledger, head, req, token, jobs, purchases, tickets, auto>>

\* the checks on the transaction's fields, the amount check accepting any
\* value not below the expected one
EthChecksAtLeast(call, e, cfg, tx) ==
    IF tx = NullObj
    THEN Returned(call, [ok |-> FALSE, reason |-> "Transaction not found (tx)",
                         txHash |-> req.txHash])
    ELSE LET toAddr == ToLower(OrEmpty(tx.to))
             fromAddr == ToLower(OrEmpty(tx.from))
             str == BigToString(tx.value)
             value == ParseBigInt(IF str = Str0 THEN <<"0">> ELSE str)
         IN  IF isBlockedAddress(e, toAddr)
             THEN Returned(call, [ok |-> FALSE, reason |-> "Blocked recipient",
                                  txHash |-> req.txHash])
             ELSE IF toAddr # cfg.depositWallet
             THEN Returned(call, [ok |-> FALSE, reason |-> "Wrong recipient",
                                  txHash |-> req.txHash])
             ELSE IF fromAddr # ToLower(req.expectedSender)
             THEN Returned(call, [ok |-> FALSE, reason |-> "Wrong sender",
                                  txHash |-> req.txHash])
             ELSE IF MagLess(value.mag, req.expectedAmount.mag)
             THEN Returned(call, [ok |-> FALSE, reason |-> "Amount mismatch",
                                  txHash |-> req.txHash])
             ELSE [call EXCEPT !.pc = "getBlockNumber",
                               !.matched = [from |-> fromAddr, to |-> toAddr, value |-> value]]

\* the checks on the transaction's fields, the amount compared before the
\* recipient and the sender
EthChecksAmountFirst(call, e, cfg, tx) ==
    IF tx = NullObj
    THEN Returned(call, [ok |-> FALSE, reason |-> "Transaction not found (tx)",
                         txHash |-> req.txHash])
    ELSE LET toAddr == ToLower(OrEmpty(tx.to))
             fromAddr == ToLower(OrEmpty(tx.from))
             str == BigToString(tx.value)
             value == ParseBigInt(IF str = Str0 THEN <<"0">> ELSE str)
         IN  IF value # req.expectedAmount
             THEN Returned(call, [ok |-> FALSE, reason |-> "Amount mismatch",
                                  txHash |-> req.txHash])
             ELSE IF isBlockedAddress(e, toAddr)
             THEN Returned(call, [ok |-> FALSE, reason |-> "Blocked recipient",
                                  txHash |-> req.txHash])
             ELSE IF toAddr # cfg.depositWallet
             THEN Returned(call, [ok |-> FALSE, reason |-> "Wrong recipient",
                                  txHash |-> req.txHash])
             ELSE IF fromAddr # ToLower(req.expectedSender)
             THEN Returned(call, [ok |-> FALSE, reason |-> "Wrong sender",
                                  txHash |-> req.txHash])
             ELSE [call EXCEPT !.pc = "getBlockNumber",
                               !.matched = [from |-> fromAddr, to |-> toAddr, value |-> value]]

\* the checks on the transaction's fields, one after the other
EthChecks(call, e, cfg, tx) ==
    IF tx = NullObj
    THEN Returned(call, [ok |-> FALSE, reason |-> "Transaction not found (tx)",
                         txHash |-> req.txHash])
    ELSE LET toAddr == ToLower(OrEmpty(tx.to))
             fromAddr == ToLower(OrEmpty(tx.from))
             str == BigToString(tx.value)
             value == ParseBigInt(IF str = Str0 THEN <<"0">> ELSE str)
         IN  IF isBlockedAddress(e, toAddr)
             THEN Returned(call, [ok |-> FALSE, reason |-> "Blocked recipient",
                                  txHash |-> req.txHash])
             ELSE IF toAddr # cfg.depositWallet
             THEN Returned(call, [ok |-> FALSE, reason |-> "Wrong recipient",
                                  txHash |-> req.txHash])
             ELSE IF fromAddr # ToLower(req.expectedSender)
             THEN Returned(call, [ok |-> FALSE, reason |-> "Wrong sender",
                                  txHash |-> req.txHash])
             ELSE IF value # req.expectedAmount
             THEN Returned(call, [ok |-> FALSE, reason |-> "Amount mismatch",
                                  txHash |-> req.txHash])
             ELSE [call EXCEPT !.pc = "getBlockNumber",
                               !.matched = [from |-> fromAddr, to |-> toAddr, value |-> value]]

\* EthTransaction keeping the matched transfer in a place all calls share
EthTransactionSharedMatch(k) ==
    /\ req.service = "eth"
    /\ calls[k].pc = "getTransaction"
    /\ LET after == EthChecks(calls[k], env, eth.config[req.chain], ledger[req.chain])
       IN  calls' = [j \in DOMAIN calls |->
                        IF j = k THEN after ELSE [calls[j] EXCEPT !.matched = after.matched]]
    /\ UNCHANGED <<conv, env, usdc, eth, ledger, head, req, token, jobs, purchases, tickets, auto>>

\* from the transaction to the await of getBlockNumber
EthTransaction(k) ==
    /\ req.service = "eth"
    /\ calls[k].pc = "getTransaction"
    /\ calls' = [calls EXCEPT ![k] =
           EthChecks(@, env, eth.config[req.chain], ledger[req.chain])]
    /\ UNCHANGED <<conv, env, usdc, eth, ledger, head, req, token, jobs, purchases, tickets, auto>>

\* from the block number to the return: the confirmation check
EthBlockNumber(k) ==
    /\ req.service = "eth"
    /\ calls[k].pc = "getBlockNumber"
    /\ LET receipt == ledger[req.chain]
           matched == calls[k].matched
       IN  \E current \in ReportedHeads :
             LET confs == Confirmations(current, receipt)
             IN  /\ head' = current
                 /\ calls' = [calls EXCEPT ![k] =
                       IF confs < 1
                       THEN Returned([@ EXCEPT !.current = current],
                                     [ok |-> FALSE, reason |-> "Not enough confirmations",
                                      txHash |-> req.txHash, confirmations |-> confs])
                       ELSE Returned([@ EXCEPT !.current = current],
                                     [ok |-> TRUE, txHash |-> req.txHash,
                                      confirmations |-> confs,
                                      amountWei |-> matched.value, sender |-> matched.from,
                                      to |-> matched.to])]
    /\ UNCHANGED <<conv, env, usdc, eth, ledger, req, token, jobs, purchases, tickets, auto>>

(***************************************************************************)
(* Key derivation and settlement: resolveSignerForAddress, sweepToPayout,  *)
(* payout                                                                  *)
(***************************************************************************)
\* for (let i = 0; i < 10; i++)
ScanLimit == 10

\* the highest account index a seed phrase of the model derives a wallet for
MaxIndex == 10

\* new Error(message)
Error(message) == [error |-> "Error", message |-> message]

\* HDNodeWallet.fromPhrase(mnemonic).derivePath(`m/44'/60'/0'/0/${i}`), its
\* address: a seed phrase is written as the wallets it derives, one letter
\* per account index ("d": the deposit wallet, "p": the payout wallet)
DeriveAddress(mnemonic, i) ==
    IF mnemonic[i + 1] = "d" THEN DepositAddr
    ELSE IF mnemonic[i + 1] = "p" THEN PayoutAddr
    ELSE OtherAddr

\* usdc.balanceOf(address), as the token contract holds it
BalanceOf(tok, address) ==
    IF ToLower(address) \in DOMAIN tok.balances THEN tok.balances[ToLower(address)]
    ELSE BigZero

\* getDepositSigner looking for the seed phrase at account index 0 only
getDepositSignerCheckedAtZero(svc, job, accountIndex) ==
    IF ~Truthy(svc.mnemonic) /\ accountIndex = 0
    THEN Thrown(job, Error("USDC_MNEMONIC not configured"))
    ELSE [job EXCEPT !.pc = "getAddress", !.i = accountIndex,
                     !.derived = Append(@, accountIndex)]

\* getDepositSigner, and the call going on to the await of signer.getAddress()
getDepositSigner(svc, job, accountIndex) ==
    IF ~Truthy(svc.mnemonic) THEN Thrown(job, Error("USDC_MNEMONIC not configured"))
    ELSE [job EXCEPT !.pc = "getAddress", !.i = accountIndex,
                     !.derived = Append(@, accountIndex)]

\* resolveSignerForAddress up to its first await
resolveSignerForAddress(svc, job, targetAddress) ==
    getDepositSigner(svc, [job EXCEPT !.addrLower = ToLower(targetAddress)], 0)

\* the caller of resolveSignerForAddress going on with the signer: sweepToPayout
\* and payout connect the contract and call transfer
WithSigner(job, signer) ==
    IF job.op = "resolveSignerForAddress"
    THEN Returned([job EXCEPT !.signer = signer], signer)
    ELSE [job EXCEPT !.pc = "transfer", !.signer = signer]

\* the body of the loop with one index more than the code scans
AfterGetAddressOneMore(svc, job) ==
    LET address == DeriveAddress(svc.mnemonic, job.i)
    IN  IF ToLower(address) = job.addrLower
        THEN WithSigner(job, [index |-> job.i, address |-> address])
        ELSE IF job.i + 1 <= ScanLimit
        THEN getDepositSigner(svc, job, job.i + 1)
        ELSE Thrown(job, Error("Mnemonic does not derive the expected wallet address"))

\* the body of the loop of resolveSignerForAddress from the address of signer
\* i on: the comparison, the next index, the throw after the loop
AfterGetAddress(svc, job) ==
    LET address == DeriveAddress(svc.mnemonic, job.i)
    IN  IF ToLower(address) = job.addrLower
        THEN WithSigner(job, [index |-> job.i, address |-> address])
        ELSE IF job.i + 1 < ScanLimit
        THEN getDepositSigner(svc, job, job.i + 1)
        ELSE Thrown(job, Error("Mnemonic does not derive the expected wallet address"))

\* sweepToPayout after the balance without the return on a zero balance
AfterBalanceNoZeroCheck(svc, job) ==
    resolveSignerForAddress(svc, job, job.address)

\* sweepToPayout from the balance on: null on a zero balance, else the signer
AfterBalance(svc, job) ==
    IF job.balance = BigZero THEN Returned(job, Null)
    ELSE resolveSignerForAddress(svc, job, job.address)

\* the provider map after the job's step: getDepositSigner connects the
\* wallet to getProvider(chain)
WithSignerProvider(svc, before, after) ==
    IF Len(after.derived) > Len(before.derived) THEN WithProvider(svc, after.chain) ELSE svc

JobIdle ==
    [op |-> "none", pc |-> "idle", chain |-> "op-sepolia", address |-> Str0,
     amount |-> BigZero, balance |-> BigZero, addrLower |-> Str0, i |-> 0,
     derived |-> <<>>, signer |-> NullObj, tx |-> 0, result |-> NullObj]

\* sweepToPayout up to the await of balanceOf (sweepAllToPayout passes the
\* deposit wallet of the chain)
SweepStart(k) ==
    /\ jobs[k].pc = "idle"
    /\ \E chain \in Chains :
          /\ jobs' = [jobs EXCEPT ![k] =
                [@ EXCEPT !.op = "sweepToPayout", !.pc = "balanceOf", !.chain = chain,
                          !.address = usdc.config[chain].depositWallet]]
          /\ usdc' = WithUsdcContract(usdc, chain)
    /\ UNCHANGED <<conv, env, eth, ledger, head, req, calls, token, purchases, tickets, auto>>

\* SweepBalance taking the balance another call on the chain has read, when
\* there is one
SweepBalanceCached(k) ==
    /\ jobs[k].pc = "balanceOf"
    /\ LET known == {j \in DOMAIN jobs : jobs[j].chain = jobs[k].chain
                                           /\ jobs[j].balance # BigZero}
           bal == IF known # {} THEN jobs[CHOOSE j \in known : TRUE].balance
                  ELSE BalanceOf(token[jobs[k].chain], jobs[k].address)
           job == [jobs[k] EXCEPT !.balance = ParseBigInt(BigToString(bal))]
           after == AfterBalance(usdc, job)
       IN  /\ jobs' = [jobs EXCEPT ![k] = after]
           /\ usdc' = WithSignerProvider(usdc, job, after)
    /\ UNCHANGED <<conv, env, eth, ledger, head, req, calls, token, purchases, tickets, auto>>

\* the balance arrives: the zero check, then resolveSignerForAddress
SweepBalance(k) ==
    /\ jobs[k].pc = "balanceOf"
    /\ LET bal == BalanceOf(token[jobs[k].chain], jobs[k].address)
           job == [jobs[k] EXCEPT !.balance = ParseBigInt(BigToString(bal))]
           after == AfterBalance(usdc, job)
       IN  /\ jobs' = [jobs EXCEPT ![k] = after]
           /\ usdc' = WithSignerProvider(usdc, job, after)
    /\ UNCHANGED <<conv, env, eth, ledger, head, req, calls, token, purchases, tickets, auto>>

\* payout up to the first await of resolveSignerForAddress
PayoutStart(k) ==
    /\ jobs[k].pc = "idle"
    /\ \E chain \in Chains, to \in {SenderAddr}, amount6 \in {AmountA} :
          LET job == [jobs[k] EXCEPT !.op = "payout", !.chain = chain, !.address = to,
                                     !.amount = amount6]
              after == resolveSignerForAddress(usdc, job, usdc.config[chain].payoutWallet)
          IN  /\ jobs' = [jobs EXCEPT ![k] = after]
              /\ usdc' = WithSignerProvider(usdc, job, after)
    /\ UNCHANGED <<conv, env, eth, ledger, head, req, calls, token, purchases, tickets, auto>>

\* resolveSignerForAddress called for a wallet, up to its first await
ResolveStart(k) ==
    /\ jobs[k].pc = "idle"
    /\ \E targetAddress \in {DepositAddr, ToLower(PayoutAddr)} :
          LET job == [jobs[k] EXCEPT !.op = "resolveSignerForAddress",
                                     !.address = targetAddress]
              after == resolveSignerForAddress(usdc, job, targetAddress)
          IN  /\ jobs' = [jobs EXCEPT ![k] = after]
              /\ usdc' = WithSignerProvider(usdc, job, after)
    /\ UNCHANGED <<conv, env, eth, ledger, head, req, calls, token, purchases, tickets, auto>>

\* the address of signer i arrives
SignerAddress(k) ==
    /\ jobs[k].pc = "getAddress"
    /\ LET after == AfterGetAddress(usdc, jobs[k])
       IN  /\ jobs' = [jobs EXCEPT ![k] = after]
           /\ usdc' = WithSignerProvider(usdc, jobs[k], after)
    /\ UNCHANGED <<conv, env, eth, ledger, head, req, calls, token, purchases, tickets, auto>>

\* the hash of the n-th transfer broadcast on a chain
HashOf(n) == <<"0", "x", "t", DigitChar(n % 10)>>

\* the destination with the sweep sent to the address it empties
TransferToSelf(job) == ToLower(job.address)

\* the destination of the transfer: cfg.payoutWallet for the sweep, the
\* recipient for the payout
TransferTo(job) ==
    IF job.op = "sweepToPayout" THEN usdc.config[job.chain].payoutWallet
    ELSE ToLower(job.address)

\* what usdc.transfer rejects with when the endpoint cannot be reached
NetworkError == [error |-> "NETWORK_ERROR"]

\* usdc.transfer(to, value) by the signer: the transaction is broadcast and
\* mined, and it succeeds only if the signer's wallet holds the value; or the
\* endpoint is not reached, nothing is broadcast and the call rejects
Transfer(k) ==
    /\ jobs[k].pc = "transfer"
    /\ LET job == jobs[k]
           tok == token[job.chain]
           from == ToLower(job.signer.address)
           to == TransferTo(job)
           value == IF job.op = "sweepToPayout" THEN job.balance ELSE job.amount
       IN  \/ /\ jobs' = [jobs EXCEPT ![k] = Thrown(@, NetworkError)]
              /\ token' = token
           \/ \E status \in {0, 1} :
             /\ status = 1 => ~MagLess(BalanceOf(tok, from).mag, value.mag)
             /\ token' = [token EXCEPT ![job.chain] =
                   [balances |->
                        IF status = 1
                        THEN [a \in DOMAIN tok.balances |->
                                LET out == IF a = from
                                           THEN BigAdd(tok.balances[a], MkBig(TRUE, value.mag))
                                           ELSE tok.balances[a]
                                IN  IF a = to THEN BigAdd(out, value) ELSE out]
                        ELSE tok.balances,
                    transfers |-> Append(tok.transfers,
                        [by |-> k, from |-> from, to |-> to, value |-> value,
                         status |-> status])]]
             /\ jobs' = [jobs EXCEPT ![k] =
                   [@ EXCEPT !.pc = "wait", !.tx = Len(tok.transfers) + 1]]
    /\ UNCHANGED <<conv, env, usdc, eth, ledger, head, req, calls, purchases, tickets, auto>>

\* Wait sending the transfer again when its status is not success
WaitRetrying(k) ==
    /\ jobs[k].pc = "wait"
    /\ LET job == jobs[k]
           rc == token[job.chain].transfers[job.tx]
       IN  jobs' = [jobs EXCEPT ![k] =
               IF rc.status # 1 THEN [@ EXCEPT !.pc = "transfer"]
               ELSE Returned(@, HashOf(job.tx))]
    /\ UNCHANGED <<conv, env, usdc, eth, ledger, head, req, calls, token, purchases, tickets, auto>>

\* Wait returning the hash whatever the status of the receipt
WaitIgnoringStatus(k) ==
    /\ jobs[k].pc = "wait"
    /\ jobs' = [jobs EXCEPT ![k] = Returned(@, HashOf(jobs[k].tx))]
    /\ UNCHANGED <<conv, env, usdc, eth, ledger, head, req, calls, token, purchases, tickets, auto>>

\* tx.wait(1) answers: the status check and the return of the hash
Wait(k) ==
    /\ jobs[k].pc = "wait"
    /\ LET job == jobs[k]
           rc == token[job.chain].transfers[job.tx]
       IN  jobs' = [jobs EXCEPT ![k] =
               IF rc.status # 1
               THEN Thrown(@, Error(IF job.op = "sweepToPayout" THEN "Sweep transfer failed"
                                    ELSE "Payout transfer failed"))
               ELSE Returned(@, HashOf(job.tx))]
    /\ UNCHANGED <<conv, env, usdc, eth, ledger, head, req, calls, token, purchases, tickets, auto>>

(***************************************************************************)
(* AutoDrawingService: the scheduler of the automatic drawing.  Instants   *)
(* are hours since a Sunday 00:00 UTC; the timer ticks every minute, that  *)
(* is, any number of times within an hour.                                 *)
(***************************************************************************)
\* the first hour of a run: Friday 17:00 UTC
StartHour == 137

\* the hours the clock advances in a run
MaxHours == 4

\* the drawings and the timers a run makes at most
MaxDrawings == 3

MaxTimers == 3

\* intervalId: null
NoTimer == 0

\* getCurrentDrawingSchedule without display overrides: Friday 21:00
DefaultSchedule == [dayOfWeek |-> 5, hour |-> 21]

\* getNextDrawingDate at the instant now, Berlin being berlinOffset hours and
\* the server's local time serverOffset hours ahead of UTC.  The wall clock
\* of Berlin is read as a string and parsed as local time of the server; the
\* result is the next target on that clock, as an instant, minus two hours.
getNextDrawingDate(schedule, now, berlinOffset, serverOffset) ==
    LET wall == now + berlinOffset
        nowBerlin == wall - serverOffset
        todayTarget == (wall \div 24) * 24 + schedule.hour - serverOffset
        currentDay == (wall \div 24) % 7
        days == (schedule.dayOfWeek - currentDay + 7) % 7
        daysToAdd == IF days = 0 /\ todayTarget <= nowBerlin THEN 7 ELSE days
        nextDrawingBerlin == todayTarget + 24 * daysToAdd
    IN  nextDrawingBerlin - 2

\* calculateNextDrawingTime
calculateNextDrawingTime(a) ==
    [a EXCEPT !.config =
        [@ EXCEPT !.nextScheduledTime =
                      getNextDrawingDate(DefaultSchedule, a.now, a.berlinOffset, a.serverOffset),
                  !.dayOfWeek = DefaultSchedule.dayOfWeek,
                  !.hour = DefaultSchedule.hour]]

\* stopScheduler: clearInterval of the timer the service holds
stopScheduler(a) ==
    IF a.intervalId # NoTimer
    THEN [a EXCEPT !.timers = @ \ {a.intervalId}, !.intervalId = NoTimer]
    ELSE a

\* startScheduler setting a new interval without clearing the one it holds
startSchedulerKeepingOld(a) ==
    IF ~a.config.enabled THEN a
    ELSE [a EXCEPT !.created = @ + 1, !.intervalId = a.created + 1,
                   !.timers = @ \cup {a.created + 1}]

\* startScheduler: the old interval is cleared, a new one is set when enabled
startScheduler(a) ==
    LET c == stopScheduler(a)
    IN  IF ~c.config.enabled THEN c
        ELSE [c EXCEPT !.created = @ + 1, !.intervalId = c.created + 1,
                       !.timers = @ \cup {c.created + 1}]

\* the service as constructed at the instant now: auto-drawing is off, the
\* next drawing time is calculated, no scheduler is started
NewAutoDrawingService(now, berlinOffset, serverOffset) ==
    calculateNextDrawingTime(
        [config |-> [enabled |-> FALSE, nextScheduledTime |-> NoTimer, dayOfWeek |-> 5,
                     hour |-> 21],
         intervalId |-> NoTimer, timers |-> {}, created |-> 0, drawings |-> <<>>,
         now |-> now, berlinOffset |-> berlinOffset, serverOffset |-> serverOffset])

\* the service of the runs that do not use it
AutoIdle == NewAutoDrawingService(StartHour, 2, 0)

\* performDrawing: the drawing is recorded with the scheduled time it was
\* made for
performDrawing(a) ==
    [a EXCEPT !.drawings = Append(@, [for |-> a.config.nextScheduledTime, at |-> a.now,
                                      enabled |-> a.config.enabled])]

\* checkForScheduledDrawing
checkForScheduledDrawing(a) ==
    IF ~a.config.enabled THEN a
    ELSE IF a.now >= a.config.nextScheduledTime
    THEN calculateNextDrawingTime(performDrawing(a))
    ELSE a

\* setAutoDrawingEnabled
SetAutoDrawingEnabled ==
    /\ \E enabled \in BOOLEAN :
          /\ enabled => auto.created < MaxTimers
          /\ LET c == calculateNextDrawingTime([auto EXCEPT !.config.enabled = enabled])
             IN  auto' = IF enabled THEN startScheduler(c) ELSE stopScheduler(c)
    /\ UNCHANGED <<conv, env, usdc, eth, ledger, head, req, calls, token, jobs, purchases,
                   tickets>>

\* the callback of an interval runs: of a running one, or of one that was
\* due when it was cleared
Tick ==
    /\ Len(auto.drawings) < MaxDrawings
    /\ \E t \in 1..auto.created : auto' = checkForScheduledDrawing(auto)
    /\ UNCHANGED <<conv, env, usdc, eth, ledger, head, req, calls, token, jobs, purchases,
                   tickets>>

\* an hour passes
ClockAdvance ==
    /\ auto.now < StartHour + MaxHours
    /\ auto' = [auto EXCEPT !.now = @ + 1]
    /\ UNCHANGED <<conv, env, usdc, eth, ledger, head, req, calls, token, jobs, purchases,
                   tickets>>

(***************************************************************************)
(* The chain and the requests of the model                                 *)
(***************************************************************************)
Callers == {"first", "second"}

TransferLog(address, from, to, value) ==
    [address |-> address, decoded |-> "Transfer", args |-> <<from, to, value>>]

\* a log of the token contract that parseLog cannot decode
MalformedLog(address) ==
    [address |-> address, decoded |-> "throws", args |-> <<>>]

LogKinds ==
    {TransferLog(TokenAddr, SenderAddr, DepositAddr, AmountA),
     TransferLog(TokenAddr, SenderAddr, DepositAddr, AmountB),
     TransferLog(OtherAddr, SenderAddr, DepositAddr, AmountA),
     MalformedLog(TokenAddr)}

LogSeqs == UNION {[1..n -> LogKinds] : n \in 0..MaxLogs}

EmptyData == <<"0", "x">>

\* AmountA and AmountB in hexadecimal
HexA == <<"f", "4", "2", "4", "0">>

HexB == <<"F", "4", "2", "4", "1">>

\* the input of transfer(address,uint256): selector, the address in the low
\* 20 bytes of the first word (pad: its high 12 bytes), the amount word
TransferData(pad, address, amountHex) ==
    TransferSelector \o Repeat(pad, 24) \o SliceFrom(address, 2) \o PadStart(amountHex, 64, "0")

DataKinds ==
    {EmptyData,
     TransferSelector,
     TransferData("f", DepositAddr, HexB),
     TransferData("0", OtherAddr, HexA)}

\* calls of the token contract: no value, input data, logs
TokenTxs ==
    [status : {0, 1}, blockNumber : {TxBlockNumber}, to : {TokenAddr},
     from : {SenderAddr, OtherAddr}, value : {BigZero}, data : DataKinds, logs : LogSeqs]

\* calls of another contract that carry the input of a transfer to the
\* deposit wallet
ProxyTxs ==
    [status : {1}, blockNumber : {TxBlockNumber}, to : {OtherAddr},
     from : {SenderAddr, OtherAddr}, value : {BigZero},
     data : {TransferData("f", DepositAddr, HexB)}, logs : LogSeqs]

\* plain transfers of the native asset, and a contract creation (to: null)
NativeTxs ==
    [status : {0, 1}, blockNumber : {TxBlockNumber}, to : {DepositAddr, OtherAddr, Null},
     from : {SenderAddr, OtherAddr}, value : {AmountA, AmountB}, data : {EmptyData}, logs : {<<>>}]

\* BLOCKED_ETH_ADDRESSES naming the deposit wallet, with blanks and an empty entry
BlockedList == <<" ">> \o DepositAddr \o <<" ", ",", ",">> \o ToLower(OtherAddr)

Envs ==
    [USDC_TOKEN_ADDRESS_OP_SEPOLIA : {Null, TokenAddr},
     USDC_TOKEN_ADDRESS_OP_MAINNET : {ToLower(TokenAddr)},
     DEPOSIT_WALLET_ADDRESS : {Null, DepositAddr},
     PAYOUT_WALLET_ADDRESS : {Null},
     USDC_MNEMONIC : {Null},
     BLOCKED_ETH_ADDRESSES : {Null, BlockedList},
     CRYPTO_CHAIN : {Null},
     TICKET_PRICE_USD : {Null},
     SPLIT_WALLET_ADDRESS : {OtherAddr},
     OP_RPC_URL : {RpcUrl},
     OP_MAINNET_RPC_URL : {Null}]

Requests ==
    [service : {"usdc", "eth"}, chain : Chains, txHash : {TxHash},
     expectedAmount : {AmountA, AmountB},
     expectedSender : {SenderAddr, ToLower(OtherAddr)}]

ConvIdle ==
    [pc |-> "idle", decimals |-> UsdcDecimals, amt |-> BigZero, str |-> Str0, back |-> BigZero]

\* no variable of the environment is set
EnvOff ==
    [USDC_TOKEN_ADDRESS_OP_SEPOLIA |-> Null, USDC_TOKEN_ADDRESS_OP_MAINNET |-> Null,
     DEPOSIT_WALLET_ADDRESS |-> Null, PAYOUT_WALLET_ADDRESS |-> Null,
     USDC_MNEMONIC |-> Null, BLOCKED_ETH_ADDRESSES |-> Null,
     CRYPTO_CHAIN |-> Null, TICKET_PRICE_USD |-> Null, SPLIT_WALLET_ADDRESS |-> Null,
     OP_RPC_URL |-> Null, OP_MAINNET_RPC_URL |-> Null]

\* a call not yet made; current: the answer of getBlockNumber, once read
NoBlock == -1

\* a token contract nobody holds a balance of
TokenEmpty == [balances |-> <<>>, transfers |-> <<>>]

\* a purchase request not yet received
PurchaseIdle == [pc |-> "idle", body |-> NullObj, response |-> NullObj]

CallIdle == [pc |-> "idle", matched |-> NullObj, current |-> NoBlock, result |-> NullObj]

\* the services as constructed, a request, and the chain it is checked against
Init ==
    /\ conv = ConvIdle
    /\ env \in Envs
    /\ usdc = NewUsdcService(env)
    /\ eth = NewEthService(env)
    /\ req \in Requests
    /\ \/ /\ req.service = "usdc"
          /\ env.BLOCKED_ETH_ADDRESSES = Null
          /\ env.DEPOSIT_WALLET_ADDRESS # Null
          /\ \E tx \in TokenTxs \cup ProxyTxs \cup NativeTxs \cup {NullObj} :
                ledger = [c \in Chains |-> IF c = req.chain THEN tx ELSE NullObj]
       \/ /\ req.service = "eth"
          /\ env.USDC_TOKEN_ADDRESS_OP_SEPOLIA = Null
          /\ \E tx \in NativeTxs \cup {NullObj} :
                ledger = [c \in Chains |-> IF c = req.chain THEN tx ELSE NullObj]
    /\ head = 0
    /\ calls = [k \in Callers |-> CallIdle]
    /\ token = [c \in Chains |-> TokenEmpty]
    /\ jobs = [k \in Callers |-> JobIdle]
    /\ purchases = [k \in Callers |-> PurchaseIdle]
    /\ tickets = <<>>
    /\ auto = AutoIdle

Next ==
    \E k \in Callers :
          \/ UsdcStart(k) \/ UsdcReceipt(k) \/ UsdcTransaction(k) \/ UsdcBlockNumber(k)
          \/ EthStart(k) \/ EthReceipt(k) \/ EthTransaction(k) \/ EthBlockNumber(k)

Spec == Init /\ [][Next]_vars

(***************************************************************************)
(* Properties of validateIncomingTransfer                                  *)
(***************************************************************************)
\* the transaction the request names, as the chain holds it
Tx == ledger[req.chain]

Mined == Tx # NullObj

Finished(k) == calls[k].pc \in {"returned", "thrown"}

Succeeded(k) == calls[k].pc = "returned" /\ calls[k].result.ok

Failed(k, reason) ==
    /\ calls[k].pc = "returned"
    /\ ~calls[k].result.ok
    /\ calls[k].result.reason = reason

\* amount6 of the token variant, amountWei of the native one
ResultAmount(k) ==
    IF req.service = "usdc" THEN calls[k].result.amount6 ELSE calls[k].result.amountWei

\* C2: a validation that returns success (token or native variant) reports
\* at least one confirmation and a validated amount equal to the expected
\* amount of the call.
C2_SuccessCarriesAmount ==
    \A k \in Callers :
        Succeeded(k) =>
            /\ calls[k].result.confirmations >= 1
            /\ ResultAmount(k) = req.expectedAmount

\* both callers succeed, one of them with more than one confirmation
C2_Witness ==
    /\ \A k \in Callers : Succeeded(k)
    /\ \E k \in Callers : calls[k].result.confirmations > 1
    /\ req.expectedAmount = AmountB
    /\ ResultAmount("first") = AmountB

\* the token variant on a chain whose token address is set
TokenConfigured == req.service = "usdc" /\ Truthy(usdc.config[req.chain].tokenAddress)

SameAddress(a, b) == ToLower(OrEmpty(a)) = ToLower(OrEmpty(b))

\* the logs of the transaction that are Transfer events of the token contract
\* from the expected sender to the deposit wallet
MatchingLogs ==
    {i \in 1..Len(Tx.logs) :
        /\ Tx.logs[i].decoded = "Transfer"
        /\ SameAddress(Tx.logs[i].address, usdc.config[req.chain].tokenAddress)
        /\ SameAddress(Tx.logs[i].args[1], req.expectedSender)
        /\ SameAddress(Tx.logs[i].args[2], env.DEPOSIT_WALLET_ADDRESS)}

FirstMatchingLog == Tx.logs[CHOOSE i \in MatchingLogs : \A j \in MatchingLogs : i <= j]

\* a successful native transfer from the expected sender to the deposit
\* wallet, which is not on the list of blocked recipients
NativeMatch ==
    /\ req.service = "eth"
    /\ Mined
    /\ Tx.status = 1
    /\ Tx.to # Null
    /\ SameAddress(Tx.to, env.DEPOSIT_WALLET_ADDRESS)
    /\ SameAddress(Tx.from, req.expectedSender)
    /\ env.BLOCKED_ETH_ADDRESSES = Null

\* C3: a transfer that matches on token contract, sender and destination (on
\* destination and sender in the native variant) but whose amount differs from
\* the expected amount, by however little, makes the validation return the
\* failure "Amount mismatch".
C3_AmountMismatch ==
    \A k \in Callers :
        Finished(k) =>
            /\ (TokenConfigured /\ Mined /\ Tx.status = 1 /\ MatchingLogs # {}
                   /\ FirstMatchingLog.args[3] # req.expectedAmount)
                => Failed(k, "Amount mismatch")
            /\ (req.service = "usdc" /\ calls[k].matched # NullObj
                   /\ calls[k].matched.value # req.expectedAmount)
                => Failed(k, "Amount mismatch")
            /\ (NativeMatch /\ Tx.value # req.expectedAmount)
                => Failed(k, "Amount mismatch")

\* a native transfer one unit above the expected amount is refused
C3_Witness ==
    /\ NativeMatch
    /\ req.expectedAmount = AmountA
    /\ Tx.value = AmountB
    /\ Failed("first", "Amount mismatch")

\* C4 as stated: a mined transaction whose status is not success yields
\* "Transaction reverted", whatever else holds.
C4_RevertedAlways ==
    \A k \in Callers :
        (Finished(k) /\ Mined /\ Tx.status # 1) => Failed(k, "Transaction reverted")

\* C4: a mined transaction whose execution status is not success yields the
\* failure "Transaction reverted", whatever its logs, call data, destination,
\* sender or value, on a chain that passes the configuration check (the token
\* variant reports "Token address not configured" before it looks the
\* transaction up).
C4_Reverted ==
    \A k \in Callers :
        (Finished(k) /\ Mined /\ Tx.status # 1 /\ (req.service = "usdc" => TokenConfigured))
            => Failed(k, "Transaction reverted")

\* a reverted transaction whose logs hold the expected transfer
C4_Witness ==
    /\ TokenConfigured
    /\ Mined
    /\ Tx.status = 0
    /\ MatchingLogs # {}
    /\ FirstMatchingLog.args[3] = req.expectedAmount
    /\ Failed("first", "Transaction reverted")

\* the head reported to the call was behind the block of the transaction
SawHeadBehind(k) ==
    calls[k].current # NoBlock /\ calls[k].current < Tx.blockNumber

\* the success a matched transfer is to give
MatchedSuccess(k) ==
    /\ Succeeded(k)
    /\ calls[k].result.amount6 = req.expectedAmount
    /\ SameAddress(calls[k].result.sender, req.expectedSender)
    /\ SameAddress(calls[k].result.to, env.DEPOSIT_WALLET_ADDRESS)

\* C5 as stated: a successful transaction with some Transfer event of the
\* token contract from S to the deposit wallet of value V, validated with
\* expected sender S and expected amount V, yields success.
C5_LogMatchSucceeds ==
    \A k \in Callers :
        (Finished(k) /\ TokenConfigured /\ Mined /\ Tx.status = 1
            /\ \E i \in MatchingLogs : Tx.logs[i].args[3] = req.expectedAmount)
            => MatchedSuccess(k)

\* C5: on a chain with a configured token address, a successful transaction
\* whose first Transfer event of the token contract from S to the deposit
\* wallet has value V, validated with expected sender S and expected amount V,
\* yields success with validatedAmount V, matchedSender S and the deposit
\* wallet as destination, unless the head reported to the call is behind the
\* block of the transaction: then it yields "Not enough confirmations".
C5_FirstLogMatchSucceeds ==
    \A k \in Callers :
        (Finished(k) /\ TokenConfigured /\ Mined /\ Tx.status = 1
            /\ MatchingLogs # {} /\ FirstMatchingLog.args[3] = req.expectedAmount)
            => IF SawHeadBehind(k)
               THEN Failed(k, "Not enough confirmations")
               ELSE MatchedSuccess(k)

\* the expected transfer is the second log, after one of another contract
C5_Witness ==
    /\ TokenConfigured
    /\ Mined
    /\ Len(Tx.logs) = 2
    /\ MatchingLogs = {2}
    /\ Tx.data = EmptyData
    /\ MatchedSuccess("first")
    /\ calls["first"].result.sender = ToLower(SenderAddr)

\* the destination of the transaction is on the list of blocked recipients
BlockedDestination ==
    /\ Mined
    /\ Tx.to # Null
    /\ env.BLOCKED_ETH_ADDRESSES = BlockedList
    /\ ToLower(Tx.to) \in {ToLower(DepositAddr), ToLower(OtherAddr)}

\* C6: the native validation never returns success for a transaction whose
\* destination is on the configured list of blocked recipients, even when
\* that destination is the deposit wallet and sender and value match.
C6_BlockedNeverSucceeds ==
    \A k \in Callers :
        (req.service = "eth" /\ BlockedDestination) => ~Succeeded(k)

\* the deposit wallet is blocked and everything else matches
C6_Witness ==
    /\ req.service = "eth"
    /\ BlockedDestination
    /\ Tx.status = 1
    /\ SameAddress(Tx.to, env.DEPOSIT_WALLET_ADDRESS)
    /\ SameAddress(Tx.from, req.expectedSender)
    /\ Tx.value = req.expectedAmount
    /\ Failed("first", "Blocked recipient")

\* what a call gave: success, a failure and its reason, or an exception
Outcome(k) ==
    IF calls[k].pc = "thrown" THEN <<"thrown", calls[k].result.error>>
    ELSE IF calls[k].result.ok THEN <<"success">>
    ELSE <<"failure", calls[k].result.reason>>

\* C9 as stated: two validations with the same arguments against the same
\* mined transaction give the same outcome, however far the head advanced.
C9_SameOutcome ==
    \A j, k \in Callers :
        (Mined /\ Finished(j) /\ Finished(k)) => Outcome(j) = Outcome(k)

\* C9: two validations with the same arguments against the same mined
\* transaction give the same outcome, however far the head advanced between
\* them, provided neither was reported a head behind the block of the
\* transaction (such a call fails with "Not enough confirmations" while a
\* later one may succeed).
C9_SameOutcomeOnceConfirmed ==
    \A j, k \in Callers :
        (Mined /\ Finished(j) /\ Finished(k) /\ ~SawHeadBehind(j) /\ ~SawHeadBehind(k))
            => Outcome(j) = Outcome(k)

\* both calls succeed, the head having advanced between them
C9_Witness ==
    /\ Succeeded("first")
    /\ Succeeded("second")
    /\ calls["first"].current # calls["second"].current

\* C10 as stated: the validation never throws; every expected kind of
\* failure comes back as a structured failure with a reason (here for a
\* transaction that is mined; the wait for one that is not is C15).
C10_NeverThrows ==
    \A k \in Callers : Mined => calls[k].pc # "thrown"

\* C15 as stated: a validation of a transaction that is not mined before
\* the wait's timeout elapses returns the failure "Transaction not found"; it
\* does not throw.
C15_NotFoundReturned ==
    \A k \in Callers :
        (~Mined /\ Finished(k) /\ (req.service = "usdc" => TokenConfigured))
            => Failed(k, "Transaction not found")

\* C16: the token validation on a chain without a token address returns the
\* failure "Token address not configured" before any operation of the chain
\* client: no provider and no contract is made, no transaction is looked up
\* and no block number is read.
C16_NotConfiguredFirst ==
    (req.service = "usdc" /\ ~TokenConfigured) =>
        /\ \A k \in Callers :
              \/ calls[k].pc = "idle"
              \/ /\ calls[k].pc = "returned"
                 /\ calls[k].result = [ok |-> FALSE, reason |-> "Token address not configured"]
                 /\ calls[k].current = NoBlock
        /\ usdc.providers = {}
        /\ usdc.usdcContracts = {}
        /\ head = 0

\* a token validation of a mined, matching transfer on a chain without a
\* token address has returned
C16_Witness ==
    /\ req.service = "usdc"
    /\ ~TokenConfigured
    /\ Mined
    /\ Tx.status = 1
    /\ Failed("first", "Token address not configured")
    /\ usdc.providers = {}

\* the token validation has the receipt of a successful transaction and has
\* scanned its logs
LogsPassed(k) ==
    /\ TokenConfigured
    /\ Mined
    /\ Tx.status = 1
    /\ calls[k].pc \notin {"idle", "waitForTransaction"}

\* the transfer a log stands for, addresses in lower case
TransferOfLog(log) ==
    [from |-> ToLower(log.args[1]), to |-> ToLower(log.args[2]), value |-> log.args[3]]

\* the arguments of the transfer the input data of the transaction encodes
\* (recipient, amount), none when the data is not the input of a transfer
InputArgs ==
    IF Tx.data = TransferData("f", DepositAddr, HexB) THEN <<DepositAddr, AmountB>>
    ELSE IF Tx.data = TransferData("0", OtherAddr, HexA) THEN <<OtherAddr, AmountA>>
    ELSE <<>>

\* the transaction is a call of transfer on the token contract, by the
\* expected sender, to the deposit wallet
InputMatch ==
    /\ Mined
    /\ Tx.to # Null
    /\ SameAddress(Tx.to, usdc.config[req.chain].tokenAddress)
    /\ Len(Tx.data) >= 10
    /\ SubSeq(Tx.data, 1, 10) = TransferSelector
    /\ Len(InputArgs) = 2
    /\ SameAddress(InputArgs[1], env.DEPOSIT_WALLET_ADDRESS)
    /\ SameAddress(Tx.from, req.expectedSender)

NoMatchingTransfer == "No matching USDC transfer to deposit wallet found"

\* C23: the scan of the logs looks only at logs of the configured token
\* contract, skips a log that cannot be decoded without failing the call, and
\* takes the first log in receipt order whose destination is the deposit
\* wallet and whose source is the expected sender, whatever the case of the
\* letters; the amount check is made on that log only, and a transaction
\* without such a log gets a match from its input data or none.
C23_FirstAcceptedLog ==
    \A k \in Callers :
        LogsPassed(k) =>
            IF MatchingLogs # {}
            THEN /\ calls[k].pc # "thrown"
                 /\ calls[k].matched = TransferOfLog(FirstMatchingLog)
                 /\ FirstMatchingLog.args[3] # req.expectedAmount
                        => Failed(k, "Amount mismatch")
                 /\ FirstMatchingLog.args[3] = req.expectedAmount
                        => ~Failed(k, "Amount mismatch")
            ELSE calls[k].matched # NullObj => InputMatch

\* two logs are the expected transfer; the second has the expected amount,
\* the first has not
C23_Witness ==
    /\ LogsPassed("first")
    /\ Len(Tx.logs) = 2
    /\ MatchingLogs = {1, 2}
    /\ Tx.logs[1].args[3] = AmountA
    /\ Tx.logs[2].args[3] = AmountB
    /\ req.expectedAmount = AmountB
    /\ req.expectedSender = SenderAddr
    /\ Failed("first", "Amount mismatch")

\* C24: the input data of the transaction is looked at only when no log
\* matched: a transaction with a matching log is not fetched, and the matched
\* amount is the one of its first matching log, also when its input data
\* encode a matching transfer of another amount.
C24_LogBeforeInput ==
    \A k \in Callers :
        (TokenConfigured /\ Mined /\ Tx.status = 1 /\ MatchingLogs # {})
            => /\ calls[k].pc # "getTransaction"
               /\ calls[k].matched # NullObj
                      => calls[k].matched.value = FirstMatchingLog.args[3]
               /\ Succeeded(k) => calls[k].result.amount6 = FirstMatchingLog.args[3]

\* the log says AmountA, the input data AmountB, and the call succeeded with
\* AmountA
C24_Witness ==
    /\ TokenConfigured
    /\ Mined
    /\ MatchingLogs # {}
    /\ FirstMatchingLog.args[3] = AmountA
    /\ InputMatch
    /\ InputArgs[2] = AmountB
    /\ Succeeded("first")
    /\ calls["first"].result.amount6 = AmountA

\* C25: when no log matched, the transaction is matched through its input
\* data exactly when its destination is the token contract, the data begin
\* with the selector 0xa9059cbb, the low 20 bytes of the first argument are
\* the deposit wallet and its sender is the expected sender, whatever the
\* case of the letters; the matched amount is the second argument. A
\* transaction sent to another contract is not matched.
C25_InputFallback ==
    \A k \in Callers :
        (LogsPassed(k) /\ MatchingLogs = {} /\ calls[k].pc # "getTransaction")
            => /\ calls[k].matched # NullObj <=> InputMatch
               /\ InputMatch =>
                     calls[k].matched =
                        [from |-> ToLower(Tx.from),
                         to |-> ToLower(env.DEPOSIT_WALLET_ADDRESS),
                         value |-> InputArgs[2]]
               /\ (~InputMatch /\ calls[k].pc = "returned") => Failed(k, NoMatchingTransfer)
               /\ ~SameAddress(Tx.to, usdc.config[req.chain].tokenAddress)
                     => calls[k].matched = NullObj

\* a transfer without logs is matched by its input data, the high bytes of
\* the first argument not being zero
C25_Witness ==
    /\ LogsPassed("first")
    /\ Tx.logs = <<>>
    /\ InputMatch
    /\ Tx.data = TransferData("f", DepositAddr, HexB)
    /\ Succeeded("first")
    /\ calls["first"].result.amount6 = AmountB
    /\ calls["first"].result.to = ToLower(DepositAddr)

\* the position of a call in the sequence of its awaits
StepOf(call) ==
    CASE call.pc = "idle" -> 0
      [] call.pc = "waitForTransaction" -> 1
      [] call.pc = "getTransaction" -> 2
      [] call.pc = "getBlockNumber" -> 3
      [] OTHER -> 4

\* the transfer the transaction is matched as, when the matching step finds one
TransferMatches ==
    IF req.service = "usdc" THEN MatchingLogs # {} \/ InputMatch
    ELSE /\ SameAddress(Tx.to, env.DEPOSIT_WALLET_ADDRESS)
         /\ SameAddress(Tx.from, req.expectedSender)
         /\ ~BlockedDestination

MatchedAmount ==
    IF req.service = "eth" THEN Tx.value
    ELSE IF MatchingLogs # {} THEN FirstMatchingLog.args[3]
    ELSE InputArgs[2]

\* the reasons of the first step that fails, in the order configuration
\* check, transaction lookup, revert check, transfer matching, amount check,
\* confirmation check; none when every step passes
FirstFailure(k) ==
    IF req.service = "usdc" /\ ~TokenConfigured THEN {"Token address not configured"}
    ELSE IF ~Mined THEN {"Transaction not found"}
    ELSE IF Tx.status # 1 THEN {"Transaction reverted"}
    ELSE IF ~TransferMatches
    THEN IF req.service = "usdc" THEN {NoMatchingTransfer}
         ELSE {"Blocked recipient", "Wrong recipient", "Wrong sender"}
    ELSE IF MatchedAmount # req.expectedAmount THEN {"Amount mismatch"}
    ELSE IF SawHeadBehind(k) THEN {"Not enough confirmations"}
    ELSE {}

\* a call that has returned reports the first failure, or success when no
\* step fails; a call that threw did so in the lookup or in the matching
ReportsFirstFailure ==
    \A k \in Callers :
        /\ calls[k].pc = "returned" =>
              IF FirstFailure(k) = {} THEN calls[k].result.ok
              ELSE ~calls[k].result.ok /\ calls[k].result.reason \in FirstFailure(k)
        /\ calls[k].pc = "thrown" =>
              FirstFailure(k) \in {{"Transaction not found"}, {NoMatchingTransfer}}

\* a step of a call takes it to a later position, never to the same or an
\* earlier one
StepsForward ==
    \A k \in Callers :
        calls'[k] # calls[k] => StepOf(calls'[k]) > StepOf(calls[k])

\* C22: a validation goes through configuration check, transaction lookup,
\* revert check, transfer matching, amount check and confirmation check in
\* that order; what it returns is the failure of the first step that fails
\* (a transaction that does not match and has another amount is reported as
\* not matching), and it passes each step at most once.
C22_FixedOrder == []ReportsFirstFailure /\ [][StepsForward]_vars

\* a native transfer to another wallet, of another amount, was refused for
\* its recipient
C22_Witness ==
    /\ req.service = "eth"
    /\ Mined
    /\ Tx.status = 1
    /\ Tx.to = OtherAddr
    /\ env.BLOCKED_ETH_ADDRESSES = Null
    /\ Tx.value # req.expectedAmount
    /\ Failed("first", "Wrong recipient")

\* a successful transaction whose destination is not the deposit wallet or
\* whose sender is not the expected one (for the token variant: no transfer
\* of the transaction is from the expected sender to the deposit wallet)
WrongParty ==
    /\ Mined
    /\ Tx.status = 1
    /\ IF req.service = "usdc" THEN TokenConfigured /\ ~TransferMatches
       ELSE /\ ~BlockedDestination
            /\ \/ ~SameAddress(Tx.to, env.DEPOSIT_WALLET_ADDRESS)
               \/ ~SameAddress(Tx.from, req.expectedSender)

\* C26 as stated: a successful transaction whose destination is not the
\* deposit wallet, or whose sender is not the expected sender, fails with the
\* one reason of a transfer that does not match, in the token variant and in
\* the native variant alike.
C26_SingleNoMatchKind ==
    \A k \in Callers :
        (calls[k].pc = "returned" /\ WrongParty) => Failed(k, NoMatchingTransfer)

\* C27: the confirmation count of a validation that reached the confirmation
\* check is the head block number it was reported minus the block number of
\* the transaction plus one; below 1 (the head reported behind the block of
\* the transaction) the validation fails with "Not enough confirmations",
\* otherwise it succeeds and the count is the confirmations of its result.
C27_ConfirmationCount ==
    \A k \in Callers :
        /\ calls[k].current # NoBlock =>
              LET n == calls[k].current - Tx.blockNumber + 1
              IN  /\ calls[k].pc = "returned"
                  /\ calls[k].result.confirmations = n
                  /\ IF n < 1 THEN Failed(k, "Not enough confirmations") ELSE Succeeded(k)
        /\ (Succeeded(k) \/ Failed(k, "Not enough confirmations")) => calls[k].current # NoBlock

\* one call was reported a head behind the block of the transaction and
\* failed with a count of 0; the other saw the head one block past it and
\* succeeded with a count of 2
C27_Witness ==
    /\ calls["first"].current = TxBlockNumber - 1
    /\ Failed("first", "Not enough confirmations")
    /\ calls["first"].result.confirmations = 0
    /\ calls["second"].current = TxBlockNumber + 1
    /\ Succeeded("second")
    /\ calls["second"].result.confirmations = 2

\* some validation of the run has passed the call of getProvider
ProviderUsed == \E k \in Callers : calls[k].pc # "idle" /\ (req.service = "usdc" => TokenConfigured)

\* C29: in each service, over any interleaving of validations, at most one
\* provider is made per chain: none before the first use of the chain, one
\* from the first call of getProvider on, which every later call finds in
\* the map.
C29_OneProviderPerChain ==
    \A c \in Chains :
        /\ usdc.created[c] = IF c \in usdc.providers THEN 1 ELSE 0
        /\ eth.created[c] = IF c \in eth.providers THEN 1 ELSE 0
        /\ c \in usdc.providers <=> (req.service = "usdc" /\ c = req.chain /\ ProviderUsed)
        /\ c \in eth.providers <=> (req.service = "eth" /\ c = req.chain /\ ProviderUsed)
        /\ c \in usdc.usdcContracts => c \in usdc.providers

\* two native validations on one chain have both ended, and the service made
\* one provider
C29_Witness ==
    /\ req.service = "eth"
    /\ \A k \in Callers : Succeeded(k)
    /\ eth.created[req.chain] = 1
    /\ eth.providers = {req.chain}

\* what the validation of the request gives when it runs alone and is
\* reported the head that call k was reported: a function of the request,
\* the transaction and the environment only
SoloOutcomes(k) ==
    IF req.service = "usdc" /\ ~TokenConfigured
    THEN {<<"failure", "Token address not configured">>}
    ELSE IF ~Mined
    THEN {<<"failure", "Transaction not found">>, <<"thrown", "TIMEOUT">>}
    ELSE IF Tx.status # 1 THEN {<<"failure", "Transaction reverted">>}
    ELSE IF ~TransferMatches
    THEN IF req.service = "usdc"
         THEN IF Tx.to # Null /\ SameAddress(Tx.to, usdc.config[req.chain].tokenAddress)
                 /\ Tx.data = TransferSelector
              THEN {<<"thrown", "SyntaxError">>}
              ELSE {<<"failure", NoMatchingTransfer>>}
         ELSE IF BlockedDestination THEN {<<"failure", "Blocked recipient">>}
         ELSE IF ~SameAddress(Tx.to, env.DEPOSIT_WALLET_ADDRESS)
         THEN {<<"failure", "Wrong recipient">>}
         ELSE {<<"failure", "Wrong sender">>}
    ELSE IF MatchedAmount # req.expectedAmount THEN {<<"failure", "Amount mismatch">>}
    ELSE IF SawHeadBehind(k) THEN {<<"failure", "Not enough confirmations">>}
    ELSE {<<"success">>}

\* a finished call has the outcome it has alone
SoloResult == \A k \in Callers : Finished(k) => Outcome(k) \in SoloOutcomes(k)

\* a step of one call leaves the other call as it is, and of the services
\* it changes the maps of providers and contracts only
OwnStateOnly ==
    /\ \A j, k \in Callers : (j # k /\ calls'[k] # calls[k]) => calls'[j] = calls[j]
    /\ usdc'.config = usdc.config /\ usdc'.mnemonic = usdc.mnemonic
    /\ eth'.config = eth.config
    /\ UNCHANGED <<env, req, ledger, token>>

\* C31: two validations of one transaction hash with the same expectation,
\* their round trips interleaved in any way, each return what the validation
\* returns alone; a step of one changes nothing of the other, and of the
\* services only the cached providers and contracts.
C31_ConcurrentValidations == []SoloResult /\ [][OwnStateOnly]_vars

\* one validation has succeeded while the other one, started before the
\* first ended, waits for the block number
C31_Witness ==
    /\ Succeeded("first")
    /\ calls["second"].pc = "getBlockNumber"
    /\ calls["second"].matched = calls["first"].matched

\* C33 as stated: the native validation returns success only for a
\* transaction whose destination is a non-empty address equal to the
\* configured deposit wallet; without a configured deposit wallet no
\* transaction validates, a contract creation by the expected sender with
\* the expected value included.
C33_DepositWalletRequired ==
    \A k \in Callers :
        (req.service = "eth" /\ Succeeded(k))
            => /\ env.DEPOSIT_WALLET_ADDRESS # Null
               /\ Tx.to # Null
               /\ SameAddress(Tx.to, env.DEPOSIT_WALLET_ADDRESS)

(***************************************************************************)
(* Settlement runs                                                         *)
(***************************************************************************)
\* the seed phrase deriving the deposit wallet at the indices D and the
\* payout wallet at the indices P
PhraseAt(D, P) ==
    [n \in 1..(MaxIndex + 1) |->
        IF (n - 1) \in D THEN "d" ELSE IF (n - 1) \in P THEN "p" ELSE "o"]

Phrases ==
    {PhraseAt(D, P) : D \in {{}, {3}, {3, 7}, {ScanLimit - 1}, {ScanLimit}},
                      P \in {{}, {1}, {ScanLimit}}}

SettleEnvs ==
    [USDC_TOKEN_ADDRESS_OP_SEPOLIA : {TokenAddr},
     USDC_TOKEN_ADDRESS_OP_MAINNET : {ToLower(TokenAddr)},
     DEPOSIT_WALLET_ADDRESS : {DepositAddr},
     PAYOUT_WALLET_ADDRESS : {PayoutAddr},
     USDC_MNEMONIC : {Null} \cup Phrases,
     BLOCKED_ETH_ADDRESSES : {Null},
     CRYPTO_CHAIN : {Null},
     TICKET_PRICE_USD : {Null},
     SPLIT_WALLET_ADDRESS : {OtherAddr},
     OP_RPC_URL : {RpcUrl},
     OP_MAINNET_RPC_URL : {Null}]

\* the token contract with the deposit wallet holding b
TokenWith(b) ==
    [balances |-> [a \in {ToLower(DepositAddr), ToLower(PayoutAddr), ToLower(SenderAddr)} |->
                      IF a = ToLower(DepositAddr) THEN b
                      ELSE IF a = ToLower(PayoutAddr) THEN AmountA ELSE BigZero],
     transfers |-> <<>>]

InitSettle ==
    /\ conv = ConvIdle
    /\ env \in SettleEnvs
    /\ usdc = NewUsdcService(env)
    /\ eth = NewEthService(env)
    /\ ledger = [c \in Chains |-> NullObj]
    /\ head = 0
    /\ req = NullObj
    /\ calls = [k \in Callers |-> CallIdle]
    /\ \E b \in {BigZero, AmountB} :
          token = [c \in Chains |-> TokenWith(IF c = "op-sepolia" THEN b ELSE BigZero)]
    /\ jobs = [k \in Callers |-> JobIdle]
    /\ purchases = [k \in Callers |-> PurchaseIdle]
    /\ tickets = <<>>
    /\ auto = AutoIdle

NextSettle ==
    \E k \in Callers :
          \/ SweepStart(k) \/ SweepBalance(k) \/ PayoutStart(k) \/ ResolveStart(k)
          \/ SignerAddress(k) \/ Transfer(k) \/ Wait(k)

SpecSettle == InitSettle /\ [][NextSettle]_vars

\* the transfers a job broadcast, on any chain
BroadcastBy(k) ==
    {<<c, n>> \in Chains \X (1..2 * MaxIndex) :
        n <= Len(token[c].transfers) /\ token[c].transfers[n].by = k}

\* C7: sweep on an address whose token balance is zero returns null without
\* broadcasting any transaction and without resolving a signer, even when no
\* seed phrase is configured.
C7_ZeroBalanceSweep ==
    \A k \in Callers :
        (jobs[k].op = "sweepToPayout" /\ jobs[k].pc # "balanceOf"
            /\ jobs[k].balance = BigZero)
            => /\ jobs[k].pc = "returned"
               /\ jobs[k].result = Null
               /\ jobs[k].derived = <<>>
               /\ jobs[k].signer = NullObj
               /\ BroadcastBy(k) = {}

\* a sweep of an empty deposit wallet by a service without a seed phrase
C7_Witness ==
    /\ usdc.mnemonic = Str0
    /\ jobs["first"].op = "sweepToPayout"
    /\ jobs["first"].pc = "returned"
    /\ jobs["first"].balance = BigZero
    /\ jobs["first"].result = Null

\* the address resolveSignerForAddress is called with by the job
TargetOf(k) ==
    IF jobs[k].op = "payout" THEN usdc.config[jobs[k].chain].payoutWallet
    ELSE jobs[k].address

\* the account indices of the scanned range that derive the job's target
Matching(k) ==
    {i \in 0..(ScanLimit - 1) : SameAddress(DeriveAddress(usdc.mnemonic, i), TargetOf(k))}

\* the indices 0 .. n-1 in ascending order
Upto(n) == [i \in 1..n |-> i - 1]

NotDerivable == Error("Mnemonic does not derive the expected wallet address")

\* C8: resolveSignerFor scans the derivation indices 0..9 in ascending order
\* and gives the signer of the smallest index whose derived address equals
\* the target case-insensitively; if no index in 0..9 matches, also when the
\* only matching index is 10 or higher, it fails with AddressNotDerivable.
C8_ResolveScan ==
    \A k \in Callers :
        jobs[k].derived # <<>> =>
            LET M == Matching(k)
                m == CHOOSE i \in M : \A j \in M : i <= j
            IN  IF jobs[k].pc = "getAddress"
                THEN /\ jobs[k].derived = Upto(jobs[k].i + 1)
                     /\ \A i \in M : jobs[k].i <= i
                ELSE IF M = {}
                THEN /\ jobs[k].pc = "thrown"
                     /\ jobs[k].result = NotDerivable
                     /\ jobs[k].derived = Upto(ScanLimit)
                     /\ jobs[k].signer = NullObj
                ELSE /\ jobs[k].signer =
                           [index |-> m, address |-> DeriveAddress(usdc.mnemonic, m)]
                     /\ jobs[k].derived = Upto(m + 1)

\* the deposit wallet is derived at 3 and at 7, the payout wallet at 10 only:
\* the sweep got the signer of index 3, the payout failed
C8_Witness ==
    /\ usdc.mnemonic = PhraseAt({3, 7}, {ScanLimit})
    /\ jobs["first"].op = "sweepToPayout"
    /\ jobs["first"].signer # NullObj
    /\ jobs["first"].signer.index = 3
    /\ jobs["first"].addrLower # jobs["first"].signer.address
    /\ jobs["second"].op = "payout"
    /\ jobs["second"].pc = "thrown"
    /\ jobs["second"].result = NotDerivable

\* the transfer a job is waiting for or has seen confirmed
TransferOf(k) == token[jobs[k].chain].transfers[jobs[k].tx]

\* the job has broadcast its transfer
Submitted(k) ==
    /\ jobs[k].signer # NullObj
    /\ jobs[k].tx # 0
    /\ jobs[k].pc \in {"wait", "returned", "thrown"}

\* C18: a sweep of an address with a non-zero balance B, once the signer for
\* fromAddress is resolved, submits exactly one transfer: of amount B, the
\* balance read at the start of the call, to the payout wallet of the chain,
\* signed by the signer whose address is fromAddress; it returns the hash of
\* that transfer when its confirmed status is success and fails with "Sweep
\* transfer failed" otherwise.  Before the signer is resolved, and when it
\* cannot be, nothing is submitted.
C18_SweepTransfersBalance ==
    \A k \in Callers :
        (jobs[k].op = "sweepToPayout" /\ jobs[k].pc # "balanceOf"
            /\ jobs[k].balance # BigZero)
            => IF Submitted(k)
               THEN /\ BroadcastBy(k) = {<<jobs[k].chain, jobs[k].tx>>}
                    /\ TransferOf(k).value = jobs[k].balance
                    /\ TransferOf(k).to = usdc.config[jobs[k].chain].payoutWallet
                    /\ TransferOf(k).from = ToLower(jobs[k].address)
                    /\ ToLower(jobs[k].signer.address) = ToLower(jobs[k].address)
                    /\ jobs[k].pc = "returned" =>
                          TransferOf(k).status = 1 /\ jobs[k].result = HashOf(jobs[k].tx)
                    /\ jobs[k].pc = "thrown" =>
                          /\ TransferOf(k).status # 1
                          /\ jobs[k].result = Error("Sweep transfer failed")
               ELSE BroadcastBy(k) = {} /\ jobs[k].pc # "returned"

\* a sweep of the deposit wallet holding AmountB has returned the hash of
\* its transfer, and the payout wallet holds the amount
C18_Witness ==
    /\ jobs["first"].op = "sweepToPayout"
    /\ jobs["first"].pc = "returned"
    /\ jobs["first"].balance = AmountB
    /\ jobs["first"].result = HashOf(jobs["first"].tx)
    /\ TransferOf("first").value = AmountB
    /\ BalanceOf(token[jobs["first"].chain], DepositAddr) = BigZero

\* C19: payout signs with the signer resolved for the payout wallet of the
\* chain and submits one transfer of exactly amount to the recipient; it
\* returns the hash only when the confirmed status of that transfer is
\* success, and fails with "Payout transfer failed" on any other status.
C19_PayoutChecksStatus ==
    \A k \in Callers :
        jobs[k].op = "payout"
            => IF Submitted(k)
               THEN /\ BroadcastBy(k) = {<<jobs[k].chain, jobs[k].tx>>}
                    /\ TransferOf(k).value = jobs[k].amount
                    /\ TransferOf(k).to = ToLower(jobs[k].address)
                    /\ TransferOf(k).from = usdc.config[jobs[k].chain].payoutWallet
                    /\ ToLower(jobs[k].signer.address) = usdc.config[jobs[k].chain].payoutWallet
                    /\ jobs[k].pc = "returned" =>
                          TransferOf(k).status = 1 /\ jobs[k].result = HashOf(jobs[k].tx)
                    /\ jobs[k].pc = "thrown" =>
                          /\ TransferOf(k).status # 1
                          /\ jobs[k].result = Error("Payout transfer failed")
               ELSE BroadcastBy(k) = {} /\ jobs[k].pc # "returned"

\* a payout whose transfer was mined with a status that is not success has
\* failed
C19_Witness ==
    /\ jobs["first"].op = "payout"
    /\ jobs["first"].pc = "thrown"
    /\ jobs["first"].signer # NullObj
    /\ jobs["first"].result = Error("Payout transfer failed")
    /\ TransferOf("first").status = 0

\* C28: a sweep call and a payout call each broadcast at most one
\* transaction, whatever happens; a call that failed to resolve its signer or
\* whose transfer was rejected by the endpoint broadcast none, and a call
\* whose transfer was mined with a status that is not success does not send
\* it again.
C28_AtMostOneBroadcast ==
    \A k \in Callers :
        /\ Cardinality(BroadcastBy(k)) <= 1
        /\ (jobs[k].pc = "thrown"
               /\ jobs[k].result \in {NotDerivable, NetworkError,
                                      Error("USDC_MNEMONIC not configured")})
              => BroadcastBy(k) = {}
        /\ jobs[k].pc \in {"idle", "balanceOf", "getAddress", "transfer"}
              => BroadcastBy(k) = {}

\* a sweep whose transfer was mined with a status that is not success ended
\* with that one transfer, and a payout whose transfer the endpoint rejected
\* ended with none
C28_Witness ==
    /\ jobs["first"].op = "sweepToPayout"
    /\ jobs["first"].pc = "thrown"
    /\ jobs["first"].result = Error("Sweep transfer failed")
    /\ Cardinality(BroadcastBy("first")) = 1
    /\ jobs["second"].op = "payout"
    /\ jobs["second"].pc = "thrown"
    /\ jobs["second"].result = NetworkError
    /\ BroadcastBy("second") = {}

NotConfigured == Error("USDC_MNEMONIC not configured")

\* C30: without a seed phrase getDepositSigner fails with "USDC_MNEMONIC not
\* configured" at every account index; a payout, a sweep of an address with a
\* non-zero balance and a resolution of a signer therefore fail with that
\* error, without deriving a wallet and without broadcasting a transaction.
C30_NoSeedPhrase ==
    ~Truthy(usdc.mnemonic) =>
        /\ \A i \in 0..MaxIndex :
              getDepositSigner(usdc, JobIdle, i) = Thrown(JobIdle, NotConfigured)
        /\ \A k \in Callers :
              /\ BroadcastBy(k) = {}
              /\ jobs[k].derived = <<>>
              /\ jobs[k].signer = NullObj
              /\ jobs[k].pc \notin {"getAddress", "transfer", "wait"}
              /\ (jobs[k].op \in {"payout", "resolveSignerForAddress"} /\ jobs[k].pc # "idle")
                    => jobs[k].pc = "thrown" /\ jobs[k].result = NotConfigured
              /\ (jobs[k].op = "sweepToPayout" /\ jobs[k].pc # "balanceOf"
                     /\ jobs[k].balance # BigZero)
                    => jobs[k].pc = "thrown" /\ jobs[k].result = NotConfigured
        /\ \A c \in Chains : token[c].transfers = <<>>

\* without a seed phrase, a sweep of the deposit wallet holding AmountB and a
\* payout have both failed
C30_Witness ==
    /\ ~Truthy(usdc.mnemonic)
    /\ jobs["first"].op = "sweepToPayout"
    /\ jobs["first"].balance = AmountB
    /\ jobs["first"].pc = "thrown"
    /\ jobs["first"].result = NotConfigured
    /\ jobs["second"].op = "payout"
    /\ jobs["second"].pc = "thrown"
    /\ jobs["second"].result = NotConfigured
    /\ \A c \in Chains : token[c].transfers = <<>>

\* a sweep of the chain has returned the hash of its transfer
SweptBy(j, chain) ==
    /\ jobs[j].op = "sweepToPayout"
    /\ jobs[j].chain = chain
    /\ jobs[j].pc = "returned"
    /\ jobs[j].result # Null

\* a sweep whose balance read is answered after another sweep of the same
\* address has returned its hash reads zero and returns null
SerializedSweepReadsZero ==
    \A j, k \in Callers :
        (j # k /\ jobs[k].op = "sweepToPayout" /\ jobs[k].pc = "balanceOf"
            /\ jobs'[k].pc # "balanceOf" /\ SweptBy(j, jobs[k].chain))
            => /\ jobs'[k].balance = BigZero
               /\ jobs'[k].pc = "returned"
               /\ jobs'[k].result = Null

\* the transfer of a sweep is of the balance the call read, however old
SweepsSendWhatTheyRead ==
    \A k \in Callers :
        (jobs[k].op = "sweepToPayout" /\ Submitted(k)) => TransferOf(k).value = jobs[k].balance

\* C32: nothing is held between the balance read and the broadcast of a
\* sweep: each sweep broadcasts the balance it read, so two sweeps of one
\* address that are not serialized may both read the same non-zero balance
\* and both broadcast a transfer of it, while a sweep that reads the balance
\* after another sweep of the address succeeded reads zero and returns null.
C32_NoLockBetweenReadAndBroadcast ==
    []SweepsSendWhatTheyRead /\ [][SerializedSweepReadsZero]_vars

\* two sweeps of the deposit wallet of one chain both read AmountB and both
\* broadcast a transfer of AmountB
C32_Witness ==
    /\ \A k \in Callers :
          /\ jobs[k].op = "sweepToPayout"
          /\ jobs[k].chain = "op-sepolia"
          /\ jobs[k].balance = AmountB
          /\ Submitted(k)
          /\ TransferOf(k).value = AmountB
    /\ jobs["first"].tx # jobs["second"].tx

\* no upper-case letter occurs in the string
IsLowerCase(s) ==
    \A i \in 1..Len(s) : s[i] \notin {HexUpper[j] : j \in 1..6} \cup {"X"}

\* the wallet address w of a config is the environment value v in lower case
\* (the empty string when the value is unset)
WalletOf(w, v) ==
    /\ IsLowerCase(w)
    /\ IF v = Null THEN w = Str0 ELSE SameAddress(w, v)

\* C21: after construction and after any sequence of sweep and payout
\* operations, the configuration of each chain is the one the constructor
\* built from the environment, and its deposit, treasury and payout wallet
\* addresses are the environment values in lower case.
C21_ConfigFixedAndLowerCase ==
    /\ usdc.config = UsdcConfigOf(env)
    /\ eth.config = EthConfigOf(env)
    /\ \A c \in Chains :
          /\ WalletOf(usdc.config[c].depositWallet, env.DEPOSIT_WALLET_ADDRESS)
          /\ WalletOf(usdc.config[c].splitWallet, env.SPLIT_WALLET_ADDRESS)
          /\ WalletOf(usdc.config[c].payoutWallet, env.PAYOUT_WALLET_ADDRESS)
          /\ WalletOf(eth.config[c].depositWallet, env.DEPOSIT_WALLET_ADDRESS)
          /\ WalletOf(eth.config[c].payoutWallet, env.PAYOUT_WALLET_ADDRESS)

\* a sweep and a payout have run to their end on a service whose environment
\* gave the treasury wallet in mixed case
C21_Witness ==
    /\ ~IsLowerCase(env.SPLIT_WALLET_ADDRESS)
    /\ ~IsLowerCase(env.DEPOSIT_WALLET_ADDRESS)
    /\ jobs["first"].op = "sweepToPayout"
    /\ jobs["first"].pc = "returned"
    /\ jobs["first"].result # Null
    /\ jobs["second"].op = "payout"
    /\ jobs["second"].pc \in {"returned", "thrown"}
    /\ usdc.config["op-sepolia"].splitWallet = ToLower(OtherAddr)

(***************************************************************************)
(* Scheduler runs: the service is switched on and off while the clock runs *)
(***************************************************************************)
\* Berlin in winter (UTC+1) or in summer (UTC+2); the server's clock in UTC
\* or in Berlin's zone
InitDraw ==
    /\ conv = ConvIdle
    /\ env = EnvOff
    /\ usdc = NewUsdcService(env)
    /\ eth = NewEthService(env)
    /\ ledger = [c \in Chains |-> NullObj]
    /\ head = 0
    /\ req = NullObj
    /\ calls = [k \in Callers |-> CallIdle]
    /\ token = [c \in Chains |-> TokenEmpty]
    /\ jobs = [k \in Callers |-> JobIdle]
    /\ purchases = [k \in Callers |-> PurchaseIdle]
    /\ tickets = <<>>
    /\ \E berlinOffset \in {1, 2} : \E serverOffset \in {0, berlinOffset} :
          auto = NewAutoDrawingService(StartHour, berlinOffset, serverOffset)

NextDraw == SetAutoDrawingEnabled \/ Tick \/ ClockAdvance

SpecDraw == InitDraw /\ [][NextDraw]_vars

\* C34: after any sequence of setAutoDrawingEnabled calls and timer ticks at
\* most one interval timer runs, it is the one the service holds, and one
\* runs only while auto-drawing is enabled; a tick that arrives while it is
\* disabled makes no drawing.
C34_OneTimerWhileEnabled ==
    /\ Cardinality(auto.timers) <= 1
    /\ auto.timers = IF auto.intervalId = NoTimer THEN {} ELSE {auto.intervalId}
    /\ auto.timers # {} => auto.config.enabled
    /\ \A i \in 1..Len(auto.drawings) : auto.drawings[i].enabled

\* auto-drawing was switched on twice and off again: the second timer was
\* cleared, and none runs; the drawing made in between stays the only one
C34_Witness ==
    /\ auto.created = 2
    /\ ~auto.config.enabled
    /\ auto.timers = {}
    /\ Len(auto.drawings) = 1
    /\ auto.now > auto.drawings[1].at

\* C35 as stated: a tick that finds the scheduled time reached makes one
\* drawing and sets the next scheduled time to a moment strictly later than
\* now, so that each scheduled time triggers exactly one automatic drawing,
\* in the UTC+1 and in the UTC+2 period of Berlin.
C35_OneDrawingPerScheduledTime ==
    /\ \A i, j \in 1..Len(auto.drawings) :
          auto.drawings[i].for = auto.drawings[j].for => i = j
    /\ auto.drawings # <<>> =>
          auto.config.nextScheduledTime > auto.drawings[Len(auto.drawings)].at

(***************************************************************************)
(* Conversion runs: an amount is formatted and the string parsed back      *)
(***************************************************************************)
MaxDigits == 2

DigitSet == {0, 1, 9}

DigitSeqs == UNION {[1..k -> DigitSet] : k \in 0..MaxDigits}

\* non-negative amounts for a unit of p decimals: a high part, a run of
\* zeros about as long as the fractional part, a low part
Amounts(p) ==
    {MkBig(FALSE, hi \o [i \in 1..g |-> 0] \o lo) :
        hi \in DigitSeqs, g \in {0, p - 1, p}, lo \in DigitSeqs}
    \cup {MkBig(FALSE, hi \o [i \in 1..g |-> 0] \o <<1>>) : hi \in {<<>>, <<1>>}, g \in 0..p}

InitConv ==
    /\ \E p \in {UsdcDecimals, EthDecimals} : \E x \in Amounts(p) :
          conv = [pc |-> "start", decimals |-> p, amt |-> x, str |-> Str0, back |-> BigZero]
    /\ env = EnvOff
    /\ usdc = NewUsdcService(env)
    /\ eth = NewEthService(env)
    /\ ledger = [c \in Chains |-> NullObj]
    /\ head = 0
    /\ req = NullObj
    /\ calls = [k \in Callers |-> CallIdle]
    /\ token = [c \in Chains |-> TokenEmpty]
    /\ jobs = [k \in Callers |-> JobIdle]
    /\ purchases = [k \in Callers |-> PurchaseIdle]
    /\ tickets = <<>>
    /\ auto = AutoIdle

FromUnit6Call ==
    /\ conv.pc = "start"
    /\ conv.decimals = UsdcDecimals
    /\ conv' = [conv EXCEPT !.pc = "str6", !.str = fromUnit6(conv.amt)]
    /\ UNCHANGED <<env, usdc, eth, ledger, head, req, calls, token, jobs, purchases, tickets, auto>>

ToUnit6Call ==
    /\ conv.pc = "str6"
    /\ conv' = [conv EXCEPT !.pc = "done6", !.back = toUnit6(conv.str)]
    /\ UNCHANGED <<env, usdc, eth, ledger, head, req, calls, token, jobs, purchases, tickets, auto>>

FromWeiCall ==
    /\ conv.pc = "start"
    /\ conv.decimals = EthDecimals
    /\ conv' = [conv EXCEPT !.pc = "strWei", !.str = fromWei(conv.amt)]
    /\ UNCHANGED <<env, usdc, eth, ledger, head, req, calls, token, jobs, purchases, tickets, auto>>

ToWeiCall ==
    /\ conv.pc = "strWei"
    /\ conv' = [conv EXCEPT !.pc = "doneWei", !.back = toWei(conv.str)]
    /\ UNCHANGED <<env, usdc, eth, ledger, head, req, calls, token, jobs, purchases, tickets, auto>>

NextConv == FromUnit6Call \/ ToUnit6Call \/ FromWeiCall \/ ToWeiCall

SpecConv == InitConv /\ [][NextConv]_vars

\* C1: for every non-negative amount x, toUnit6(fromUnit6(x)) = x and
\* toWei(fromWei(x)) = x: formatting an amount and parsing the string back
\* gives the amount again, at precision 6 and at precision 18.
C1_RoundTrip ==
    conv.pc \in {"done6", "doneWei"} => conv.back = conv.amt

\* a round trip at precision 18 of an amount with a whole part and a
\* fractional part that needs left padding
C1_Witness ==
    /\ conv.pc = "doneWei"
    /\ Len(conv.amt.mag) > EthDecimals
    /\ conv.str[Len(conv.str) - EthDecimals + 1] = "0"
    /\ conv.str[Len(conv.str)] # "0"
    /\ conv.back = conv.amt

\* C12: fromUnit6 / fromWei of a non-negative amount x is the whole part
\* x div 10^p, a decimal point, and x mod 10^p left-padded with zeros to
\* exactly p digits; the expected digits are read off the decimal digits of
\* x: all but the last p, and the last p.
C12_FromMinorUnits ==
    conv.pc \in {"str6", "strWei"} =>
        LET m == conv.amt.mag
            p == conv.decimals
            whole == IF Len(m) > p THEN SubSeq(m, 1, Len(m) - p) ELSE <<0>>
        IN  conv.str = [i \in 1..Len(whole) |-> DigitChar(whole[i])] \o <<".">>
                       \o [i \in 1..p |-> DigitChar(DigitAt(m, p - i))]

\* fromUnit6(5000000) is "5.000000", and an amount below one unit has been
\* formatted with its padding
C12_Witness ==
    /\ conv.pc = "str6"
    /\ conv.amt.mag = <<1, 0, 0, 0, 0, 0, 9>>
    /\ conv.str = <<"1", ".", "0", "0", "0", "0", "0", "9">>

(***************************************************************************)
(* Parsing runs: a decimal string is converted to minor units              *)
(***************************************************************************)
Zeros(n) == [i \in 1..n |-> 0]

\* fractional parts shorter than, as long as and longer than p digits,
\* with the fractional parts of "1.2345678" and "0.9999999"
Fractions(p) ==
    {h \o Zeros(g) \o t :
        h \in {<<>>, <<0>>, <<1>>, <<9>>}, g \in {0, p - 2, p - 1},
        t \in {<<>>, <<0>>, <<1>>, <<9>>, <<1, 9>>, <<9, 9>>}}
    \cup {<<2, 3, 4, 5, 6, 7, 8>>, <<9, 9, 9, 9, 9, 9, 9>>}

\* a decimal input: an optional minus sign, the digits before the point,
\* the point (optional when no digit follows it) and the digits after it
DecimalInputs(p) ==
    {[sign |-> sg, whole |-> w, dot |-> d, fraction |-> f] :
        sg \in BOOLEAN, w \in DigitSeqs, d \in BOOLEAN, f \in Fractions(p)}

Digits(m) == [i \in 1..Len(m) |-> DigitChar(m[i])]

\* the string of a decimal input
InputString(x) ==
    (IF x.sign THEN <<"-">> ELSE Str0) \o Digits(x.whole)
    \o (IF x.dot \/ x.fraction # <<>> THEN <<".">> ELSE Str0) \o Digits(x.fraction)

InitParse ==
    /\ \E p \in {UsdcDecimals, EthDecimals} : \E x \in DecimalInputs(p) :
          conv = [pc |-> IF p = UsdcDecimals THEN "str6" ELSE "strWei", decimals |-> p,
                  input |-> x, amt |-> BigZero, str |-> InputString(x), back |-> BigZero]
    /\ env = EnvOff
    /\ usdc = NewUsdcService(env)
    /\ eth = NewEthService(env)
    /\ ledger = [c \in Chains |-> NullObj]
    /\ head = 0
    /\ req = NullObj
    /\ calls = [k \in Callers |-> CallIdle]
    /\ token = [c \in Chains |-> TokenEmpty]
    /\ jobs = [k \in Callers |-> JobIdle]
    /\ purchases = [k \in Callers |-> PurchaseIdle]
    /\ tickets = <<>>
    /\ auto = AutoIdle

NextParse == ToUnit6Call \/ ToWeiCall

SpecParse == InitParse /\ [][NextParse]_vars

\* the call has returned or thrown
Parsed == conv.pc \in {"done6", "doneWei"}

\* the first p digits of a fractional part right-padded with zeros
FirstDigits(f, p) == [i \in 1..p |-> IF i <= Len(f) THEN f[i] ELSE 0]

\* C11: toUnit6 / toWei of a decimal string is integerPart * 10^p plus the
\* first p digits of the fractional part right-padded with zeros; digits
\* beyond position p are dropped, never rounded.  For an unsigned input the
\* expected digits are the digits of the integer part followed by those p
\* digits; for a signed one the integer part, shifted p places, is negative
\* and the fractional digits are added to it.
C11_Truncates ==
    Parsed /\ (conv.input.sign => conv.input.whole # <<>>) =>
        LET x == conv.input
            p == conv.decimals
        IN  conv.back =
                IF x.sign
                THEN BigAdd(MkBig(TRUE, x.whole \o Zeros(p)), MkBig(FALSE, FirstDigits(x.fraction, p)))
                ELSE MkBig(FALSE, x.whole \o FirstDigits(x.fraction, p))

\* toUnit6("1.2345678") has returned 1234567
C11_Witness ==
    /\ conv.pc = "done6"
    /\ conv.str = <<"1", ".", "2", "3", "4", "5", "6", "7", "8">>
    /\ conv.back = MkBig(FALSE, <<1, 2, 3, 4, 5, 6, 7>>)

\* C20: every amount returned by toUnit6 / toWei is a non-negative integer,
\* for every decimal input the function accepts, a leading minus sign
\* included.
C20_NonNegative ==
    Parsed /\ conv.back # SyntaxError => ~conv.back.neg

(***************************************************************************)
(* The ticket purchase routes: purchaseTicketsUsdc, purchaseTicketsEth     *)
(***************************************************************************)
MainnetId == <<"o", "p", "-", "m", "a", "i", "n", "n", "e", "t">>

SepoliaId == <<"o", "p", "-", "s", "e", "p", "o", "l", "i", "a">>

\* getActiveChain taking every toggle that begins with the identifier
getActiveChainByPrefix(e) ==
    IF StartsWith(OrEmpty(e.CRYPTO_CHAIN), MainnetId) THEN "op-mainnet" ELSE "op-sepolia"

\* getActiveChain of both services
getActiveChain(e) ==
    IF e.CRYPTO_CHAIN = MainnetId THEN "op-mainnet" ELSE "op-sepolia"

\* the digits of a natural number below 10^9
NatDigits(n) == StripZeros([i \in 1..9 |-> (n \div 10 ^ (9 - i)) % 10])

\* Number(raw) of a string of digits
RECURSIVE DecimalValue(_)
DecimalValue(s) ==
    IF s = Str0 THEN 0 ELSE 10 * DecimalValue(SubSeq(s, 1, Len(s) - 1)) + DigitVal(s[Len(s)])

\* getTicketPriceUsd, no override set: the price in dollars
getTicketPriceUsd(e) ==
    LET raw == e.TICKET_PRICE_USD
    IN  IF Truthy(raw) /\ AllDigits(raw) THEN DecimalValue(raw) ELSE 2

\* amounts of dollars are counted in cents; totalCost.toFixed(6) of such an
\* amount
ToFixed6(cents) ==
    Digits(NatDigits(cents \div 100)) \o <<".">>
    \o Digits(<<(cents \div 10) % 10, cents % 10>>) \o Repeat("0", 4)

\* validateCoupon of the coupon store: one code gives everything away, any
\* other code is not valid
FreeCoupon == <<"F">>

BadCoupon == <<"B">>

validateCoupon(couponCode, count) ==
    IF couponCode = FreeCoupon THEN [isValid |-> TRUE, discount |-> 100, message |-> Null]
    ELSE [isValid |-> FALSE, discount |-> 0, message |-> Null]

\* the price the price service quotes for one ETH, in dollars
EthUsd == 2000

\* the quotient without the priceScaled - 1n added to the numerator
expectedWeiTruncated(usdScaled, priceScaled) ==
    BigDiv(BigMul(usdScaled, BigPow10(18)), priceScaled)

\* numerator and expectedWei of purchaseTicketsEth, from the scaled cost and
\* the scaled price
expectedWei(usdScaled, priceScaled) ==
    LET numerator == BigMul(usdScaled, BigPow10(18))
    IN  BigDiv(BigAdd(BigAdd(numerator, priceScaled), MkBig(TRUE, <<1>>)), priceScaled)

\* expectedWei of purchaseTicketsEth: the cost over the price in wei, rounded up
ExpectedWei(totalCents, ethUsd) ==
    LET usdScaled == NatBig(NatDigits(totalCents) \o Zeros(4))
        priceScaled == NatBig(NatDigits(ethUsd) \o Zeros(6))
    IN  expectedWei(usdScaled, priceScaled)

Fail(p, error) ==
    [p EXCEPT !.pc = "responded", !.response = [success |-> FALSE, error |-> error]]

\* the checks of one ticket: "" when it passes
TicketError(t) ==
    IF ~t.mainNumbers.array \/ ~t.worldNumbers.array THEN "Invalid ticket format"
    ELSE LET main == t.mainNumbers.items
             world == t.worldNumbers.items
         IN  IF Len(main) # 5 \/ Len(world) # 2 THEN "Invalid ticket format"
             ELSE IF \/ \E i \in 1..5 : main[i] < 1 \/ main[i] > 50
                     \/ \E i \in 1..2 : world[i] < 1 \/ world[i] > 12
             THEN "Numbers out of range"
             ELSE IF \/ Cardinality({main[i] : i \in 1..5}) # 5
                     \/ Cardinality({world[i] : i \in 1..2}) # 2
             THEN "Duplicate numbers in ticket"
             ELSE ""

\* tickets.map(createTicket): the tickets a request adds to the store
CreateTickets(p, k) ==
    [i \in 1..Len(p.body.tickets.items) |->
        [userId |-> p.body.user.id, mainNumbers |-> p.body.tickets.items[i].mainNumbers.items,
         worldNumbers |-> p.body.tickets.items[i].worldNumbers.items, by |-> k]]

\* the tickets are created, the coupon consumed and the success answered
Fulfil(p, k, data) ==
    [p EXCEPT !.pc = "responded", !.created = CreateTickets(p, k),
              !.couponUsed = Truthy(p.body.couponCode) /\ p.discount > 0,
              !.response = [success |-> TRUE, data |-> data]]

\* both routes from the top to the total cost, and the free path
Priced(p, e, k) ==
    LET body == p.body
        items == body.tickets.items
    IN  IF body.user = NullObj THEN Fail(p, "Authentication required")
        ELSE IF ~body.tickets.array \/ Len(items) = 0 THEN Fail(p, "No tickets provided")
        ELSE IF \E i \in 1..Len(items) : TicketError(items[i]) # ""
        THEN Fail(p, TicketError(items[CHOOSE i \in 1..Len(items) :
                        /\ TicketError(items[i]) # ""
                        /\ \A j \in 1..(i - 1) : TicketError(items[j]) = ""]))
        ELSE LET baseCost == Len(items) * getTicketPriceUsd(e) * 100
                 result == IF Truthy(body.couponCode)
                           THEN validateCoupon(body.couponCode, Len(items))
                           ELSE [isValid |-> TRUE, discount |-> 0, message |-> Null]
                 totalCost == (baseCost * (100 - result.discount)) \div 100
                 q == [p EXCEPT !.discount = result.discount, !.totalCost = totalCost]
             IN  IF ~result.isValid THEN Fail(p, "Invalid coupon")
                 ELSE IF totalCost <= 0
                 THEN Fulfil(q, k, [tickets |-> CreateTickets(q, k), totalCost |-> 0])
                 ELSE [q EXCEPT !.pc = "priced"]

\* the checks of the payment object and the call of validateIncomingTransfer
Pay(p, service, checkChain, expected) ==
    LET payment == p.body.payment
    IN  IF payment = NullObj THEN Fail(p, "Payment details required")
        ELSE IF \/ checkChain /\ payment.chain # p.activeChain
                \/ payment.txHash = ""
                \/ payment.sender = Str0
        THEN Fail(p, "Invalid payment details")
        ELSE [p EXCEPT !.pc = "validating",
                       !.request = [service |-> service, chain |-> p.activeChain,
                                    txHash |-> payment.txHash, expectedAmount |-> expected,
                                    expectedSender |-> payment.sender]]

\* AfterValidation going on to the tickets whatever the validation returned
AfterValidationUnchecked(p, call, k) ==
    IF call.pc = "thrown" THEN Fail(p, "Failed to purchase tickets")
    ELSE Fulfil(p, k, [tickets |-> CreateTickets(p, k), totalCost |-> p.totalCost,
                       txHash |-> p.body.payment.txHash])

\* the validation has answered: the error, or the tickets
AfterValidation(p, call, k) ==
    IF call.pc = "thrown" THEN Fail(p, "Failed to purchase tickets")
    ELSE IF ~call.result.ok THEN Fail(p, call.result.reason)
    ELSE Fulfil(p, k, [tickets |-> CreateTickets(p, k), totalCost |-> p.totalCost,
                       txHash |-> p.body.payment.txHash])

\* purchaseTicketsUsdc up to the await of validateIncomingTransfer
PurchaseUsdcStart(k) ==
    /\ purchases[k].pc = "received"
    /\ purchases[k].route = "usdc"
    /\ \E priced \in {Priced(purchases[k], env, k)} :
       \E after \in {IF priced.pc # "priced" THEN priced
                     ELSE Pay([priced EXCEPT !.activeChain = getActiveChain(env)], "usdc", TRUE,
                              toUnit6(ToFixed6(priced.totalCost)))} :
          /\ purchases' = [purchases EXCEPT ![k] = after]
          /\ tickets' = tickets \o after.created
          /\ req' = IF after.pc = "validating" THEN after.request ELSE req
    /\ UNCHANGED <<conv, env, usdc, eth, ledger, head, calls, token, jobs, auto>>

\* purchaseTicketsEth up to the await of fetchLiveEthUsd
PurchaseEthStart(k) ==
    /\ purchases[k].pc = "received"
    /\ purchases[k].route = "eth"
    /\ \E priced \in {Priced(purchases[k], env, k)} :
       \E after \in {IF priced.pc # "priced" THEN priced
                     ELSE [priced EXCEPT !.pc = "fetchLiveEthUsd",
                                         !.activeChain = getActiveChain(env)]} :
          /\ purchases' = [purchases EXCEPT ![k] = after]
          /\ tickets' = tickets \o after.created
    /\ UNCHANGED <<conv, env, usdc, eth, ledger, head, req, calls, token, jobs, auto>>

\* the price arrives or the fetch fails; up to the await of
\* validateIncomingTransfer
PurchaseEthPrice(k) ==
    /\ purchases[k].pc = "fetchLiveEthUsd"
    /\ \E fetched \in BOOLEAN :
       \E after \in {IF ~fetched THEN Fail(purchases[k], "Failed to load ETH price")
                     ELSE Pay(purchases[k], "eth", FALSE,
                              ExpectedWei(purchases[k].totalCost, EthUsd))} :
          /\ purchases' = [purchases EXCEPT ![k] = after]
          /\ req' = IF after.pc = "validating" THEN after.request ELSE req
    /\ UNCHANGED <<conv, env, usdc, eth, ledger, head, calls, token, jobs, tickets, auto>>

\* validateIncomingTransfer has answered the route
PurchaseFinish(k) ==
    /\ purchases[k].pc = "validating"
    /\ calls[k].pc \in {"returned", "thrown"}
    /\ \E after \in {AfterValidation(purchases[k], calls[k], k)} :
          /\ purchases' = [purchases EXCEPT ![k] = after]
          /\ tickets' = tickets \o after.created
    /\ UNCHANGED <<conv, env, usdc, eth, ledger, head, req, calls, token, jobs, auto>>

(***************************************************************************)
(* Pricing runs: the wei amount of a scaled cost at a scaled price          *)
(***************************************************************************)

MaxUsdScaled == 9

MaxPriceScaled == 9

\* Math.round(totalCostUsd * 1e6): small costs, and the costs of 1, 2 and
\* 2.5 dollars
UsdScaledInputs ==
    {NatBig(NatDigits(n)) : n \in 0..MaxUsdScaled}
    \cup {NatBig(<<1>> \o Zeros(6)), NatBig(<<2>> \o Zeros(6)), NatBig(<<2, 5>> \o Zeros(5))}

\* Math.round(ethUsd * 1e6) of a price fetchLiveEthUsd lets through: small
\* prices, and the prices of 2000, 2999.99 and 3141.592653 dollars
PriceScaledInputs ==
    {NatBig(NatDigits(n)) : n \in 1..MaxPriceScaled}
    \cup {NatBig(<<2>> \o Zeros(9)), NatBig(<<2, 9, 9, 9, 9, 9>> \o Zeros(4)),
          NatBig(<<3, 1, 4, 1, 5, 9, 2, 6, 5, 3>>)}

InitPrice ==
    /\ \E u \in UsdScaledInputs : \E p \in PriceScaledInputs :
          conv = [pc |-> "scaled", usdScaled |-> u, priceScaled |-> p, expectedWei |-> BigZero]
    /\ env = EnvOff
    /\ usdc = NewUsdcService(env)
    /\ eth = NewEthService(env)
    /\ ledger = [c \in Chains |-> NullObj]
    /\ head = 0
    /\ req = NullObj
    /\ calls = [k \in Callers |-> CallIdle]
    /\ token = [c \in Chains |-> TokenEmpty]
    /\ jobs = [k \in Callers |-> JobIdle]
    /\ purchases = [k \in Callers |-> PurchaseIdle]
    /\ tickets = <<>>
    /\ auto = AutoIdle

ExpectedWeiCall ==
    /\ conv.pc = "scaled"
    /\ conv' = [conv EXCEPT !.pc = "priced",
                            !.expectedWei = expectedWei(conv.usdScaled, conv.priceScaled)]
    /\ UNCHANGED <<env, usdc, eth, ledger, head, req, calls, token, jobs, purchases, tickets, auto>>

NextPrice == ExpectedWeiCall

SpecPrice == InitPrice /\ [][NextPrice]_vars

\* usdScaled * 10^18, the cost the payment has to cover
ScaledCost == BigMul(conv.usdScaled, BigPow10(18))

\* w * priceScaled
Covered(w) == BigMul(w, conv.priceScaled)

\* C36: the expected wei amount w of the native purchase handler is the
\* ceiling of usdScaled * 10^18 / priceScaled: w * priceScaled is not below
\* usdScaled * 10^18, and (w - 1) * priceScaled is below it, so no smaller
\* integer covers the cost and w exceeds the exact quotient by less than one
\* wei.
C36_ExpectedWeiIsCeiling ==
    conv.pc = "priced" =>
        /\ ~conv.expectedWei.neg
        /\ ~MagLess(Covered(conv.expectedWei).mag, ScaledCost.mag)
        /\ \/ conv.expectedWei = BigZero /\ ScaledCost = BigZero
           \/ /\ conv.expectedWei # BigZero
              /\ MagLess(Covered(BigAdd(conv.expectedWei, MkBig(TRUE, <<1>>))).mag,
                         ScaledCost.mag)

\* a cost the price does not divide: the amount was rounded up
C36_Witness ==
    /\ conv.pc = "priced"
    /\ conv.priceScaled = NatBig(<<2, 9, 9, 9, 9, 9>> \o Zeros(4))
    /\ conv.usdScaled = NatBig(<<2>> \o Zeros(6))
    /\ Covered(conv.expectedWei) # ScaledCost

(***************************************************************************)
(* Purchase runs: two requests, the second one paying with the hash of the *)
(* first                                                                   *)
(***************************************************************************)
Array(items) == [array |-> TRUE, items |-> items]

NotArray == [array |-> FALSE, items |-> <<>>]

Ticket(main, world) == [mainNumbers |-> main, worldNumbers |-> world]

GoodTicket == Ticket(Array(<<1, 2, 3, 4, 50>>), Array(<<1, 12>>))

Payment(chain, txHash, sender) == [chain |-> chain, txHash |-> txHash, sender |-> sender]

\* one ticket paid with the transaction of the sender
PaidBody ==
    [user |-> [id |-> "u1"], tickets |-> Array(<<GoodTicket>>), couponCode |-> Null,
     payment |-> Payment("op-sepolia", TxHash, SenderAddr)]

\* the paid body with one field changed
Bodies ==
    {PaidBody, [PaidBody EXCEPT !.user = NullObj]}
    \cup {[PaidBody EXCEPT !.tickets = t] :
            t \in {NotArray, Array(<<>>),
                   Array(<<Ticket(NotArray, Array(<<1, 2>>))>>),
                   Array(<<Ticket(Array(<<1, 2, 3, 4>>), Array(<<1, 2>>))>>),
                   Array(<<GoodTicket, Ticket(Array(<<1, 2, 3, 4, 51>>), Array(<<1, 2>>))>>),
                   Array(<<Ticket(Array(<<1, 2, 3, 4, 5>>), Array(<<2, 2>>))>>)}}
    \cup {[PaidBody EXCEPT !.couponCode = c] : c \in {FreeCoupon, BadCoupon}}
    \cup {[PaidBody EXCEPT !.couponCode = FreeCoupon, !.payment = NullObj,
                           !.tickets = Array(<<GoodTicket, GoodTicket>>)]}
    \cup {[PaidBody EXCEPT !.payment = y] :
            y \in {NullObj, Payment("op-mainnet", TxHash, SenderAddr),
                   Payment("op-sepolia", "", SenderAddr),
                   Payment("op-sepolia", TxHash, Str0),
                   Payment("op-sepolia", TxHash, ToLower(OtherAddr))}}

Toggles == {Null, Str0, MainnetId, SepoliaId, MainnetId \o <<" ">>, <<"0", "x", "a">>}

PurchaseEnvs ==
    [USDC_TOKEN_ADDRESS_OP_SEPOLIA : {TokenAddr},
     USDC_TOKEN_ADDRESS_OP_MAINNET : {ToLower(TokenAddr)},
     DEPOSIT_WALLET_ADDRESS : {DepositAddr},
     PAYOUT_WALLET_ADDRESS : {Null},
     USDC_MNEMONIC : {Null},
     BLOCKED_ETH_ADDRESSES : {Null},
     CRYPTO_CHAIN : Toggles,
     TICKET_PRICE_USD : {Null, <<"0">>},
     SPLIT_WALLET_ADDRESS : {Null},
     OP_RPC_URL : {RpcUrl},
     OP_MAINNET_RPC_URL : {RpcUrl}]

\* what one ticket costs in minor units of the route's asset
PaidAmount(service, e) ==
    IF service = "usdc" THEN toUnit6(ToFixed6(getTicketPriceUsd(e) * 100))
    ELSE ExpectedWei(getTicketPriceUsd(e) * 100, EthUsd)

\* the transaction with the hash of the payments: the price paid to the
\* deposit wallet, one unit more, or a reverted payment
PurchaseTxs(service, paid) ==
    {NullObj}
    \cup {[status |-> st, blockNumber |-> TxBlockNumber,
           to |-> IF service = "usdc" THEN TokenAddr ELSE DepositAddr,
           from |-> SenderAddr,
           value |-> IF service = "usdc" THEN BigZero ELSE v,
           data |-> EmptyData,
           logs |-> IF service = "usdc"
                    THEN <<TransferLog(TokenAddr, SenderAddr, DepositAddr, v)>> ELSE <<>>] :
            st \in {0, 1},
            v \in {paid, BigAdd(paid, NatBig(<<1>>))}}

Received(route, body) ==
    [pc |-> "received", route |-> route, body |-> body, discount |-> 0, totalCost |-> 0,
     activeChain |-> "", request |-> NullObj, created |-> <<>>, couponUsed |-> FALSE,
     response |-> NullObj]

InitPurchase ==
    /\ conv = ConvIdle
    /\ env \in PurchaseEnvs
    /\ usdc = NewUsdcService(env)
    /\ eth = NewEthService(env)
    /\ \E service \in {"usdc", "eth"} :
          /\ \E paid \in {PaidAmount(service, env)} : \E tx \in PurchaseTxs(service, paid) :
                ledger = [c \in Chains |-> IF c = getActiveChain(env) THEN tx ELSE NullObj]
          /\ \E b1 \in Bodies, b2 \in {PaidBody, [PaidBody EXCEPT !.couponCode = FreeCoupon]} :
                purchases = [k \in Callers |->
                                Received(service, IF k = "first" THEN b1 ELSE b2)]
    /\ head = 0
    /\ req = NullObj
    /\ calls = [k \in Callers |-> CallIdle]
    /\ token = [c \in Chains |-> TokenEmpty]
    /\ jobs = [k \in Callers |-> JobIdle]
    /\ tickets = <<>>
    /\ auto = AutoIdle

\* a validation runs for the route that called it
Validating(k) ==
    /\ purchases[k].pc = "validating"
    /\ \/ UsdcStart(k) \/ UsdcReceipt(k) \/ UsdcTransaction(k) \/ UsdcBlockNumber(k)
       \/ EthStart(k) \/ EthReceipt(k) \/ EthTransaction(k) \/ EthBlockNumber(k)

NextPurchase ==
    \E k \in Callers :
          \/ PurchaseUsdcStart(k) \/ PurchaseEthStart(k) \/ PurchaseEthPrice(k)
          \/ Validating(k) \/ PurchaseFinish(k)

SpecPurchase == InitPurchase /\ [][NextPurchase]_vars

\* the requests that created a ticket of the store
Buyers == {tickets[i].by : i \in 1..Len(tickets)}

\* the validation called by request k returned success for the hash the
\* request submitted
ValidatedPayment(k) ==
    /\ purchases[k].body.payment # NullObj
    /\ Succeeded(k)
    /\ calls[k].result.txHash = purchases[k].body.payment.txHash

\* C13 as stated: tickets are created only after the validation returned
\* success for the submitted transaction hash; no path creates tickets
\* without a successful validation.
C13_OnlyAfterValidation ==
    \A k \in Buyers : ValidatedPayment(k)

\* C13: a purchase whose total cost is positive creates tickets only after
\* the validation returned success for the submitted transaction hash; a
\* purchase whose total cost is zero (a coupon of 100 %, a ticket price of 0)
\* creates its tickets without a payment and without a validation.
C13_PaidOnlyAfterValidation ==
    \A k \in Buyers :
        IF purchases[k].totalCost > 0 THEN ValidatedPayment(k)
        ELSE calls[k].pc = "idle"

\* the first request paid, was validated and got its ticket
C13_Witness ==
    /\ "first" \in Buyers
    /\ purchases["first"].totalCost > 0
    /\ ValidatedPayment("first")
    /\ purchases["first"].response.success

\* C14 as stated: over any interleaving of purchase requests carrying the
\* same transaction hash, tickets are created for at most one of them.
C14_OncePerHash ==
    \A j, k \in Buyers :
        (ValidatedPayment(j) /\ ValidatedPayment(k)
            /\ purchases[j].body.payment.txHash = purchases[k].body.payment.txHash)
            => j = k

\* C17: getActiveChain returns the production chain only when the toggle is
\* exactly the production chain's identifier; for an unset, empty or any
\* other value it returns the non-production chain, and the handler that
\* called it goes on.
C17_ActiveChain ==
    \A k \in Callers :
        purchases[k].activeChain # "" =>
            /\ purchases[k].activeChain \in Chains
            /\ purchases[k].activeChain = "op-mainnet" <=> env.CRYPTO_CHAIN = MainnetId
            /\ env.CRYPTO_CHAIN \in Toggles \ {MainnetId} => purchases[k].activeChain = "op-sepolia"
            /\ purchases[k].pc \in {"fetchLiveEthUsd", "validating", "responded"}

\* a toggle that is the identifier followed by a blank gave the
\* non-production chain, and the production identifier the production chain
C17_Witness ==
    /\ env.CRYPTO_CHAIN = MainnetId \o <<" ">>
    /\ purchases["first"].activeChain = "op-sepolia"
    /\ purchases["first"].pc = "validating"

====
